---- MODULE Spec2Model ----
(***************************************************************************)
(* State-machine model of the SDP interface layer of SCIP-SDP              *)
(* (src/sdpi/sdpi.c, struct SCIP_SDPi) together with its clock             *)
(* (sdpiclock.c) and the backend solver it drives.                         *)
(*                                                                         *)
(* Numbers.  SCIP_Real values are integers.  The defaults of the          *)
(* tolerances are scaled to that grid and keep the order                   *)
(*     epsilon < feastol < gaptol,   MIN_GAPTOL < gaptol                   *)
(* they have in the source (1e-9, 1e-6, 1e-4 and 1e-10 there; 1, 2, 16     *)
(* and 4 here; MIN_GAPTOL is compared with gap tolerances only).  The      *)
(* penalty parameters (1e5 and 1e10 in the source, 1 and 4 here) and the   *)
(* gap tolerances are powers of two, and the default number of penalty     *)
(* increases is 2 (8 in the source), so that the n-th roots taken by the   *)
(* escalation scheme are exact.  Infinity is 1000 and SCIP_INVALID 100000, *)
(* both beyond every value the model computes.  C arrays are functions on  *)
(* 0..capacity-1; a cell that was allocated but never written holds        *)
(* UNINIT.                                                                 *)
(*                                                                         *)
(* Build.  SCIP_DEBUG is not defined for sdpi.c, so the arguments of       *)
(* SCIPdebugMessage are not evaluated.                                     *)
(***************************************************************************)
EXTENDS Integers, Sequences, FiniteSets, TLC

\* ---------------------------------------------------------------- bounds
MaxSolves == 2
MaxMutations == 2
MaxRows == 2
MaxCalls == 12

\* ------------------------------------------------------------- constants
MIN_GAPTOL == 4
DEFAULT_EPSILON == 1
DEFAULT_FEASTOL == 2
DEFAULT_SDPSOLVERGAPTOL == 16
DEFAULT_PENALTYPARAM == 1
DEFAULT_MAXPENALTYPARAM == 4
DEFAULT_NPENALTYINCR == 2
SCIP_DEFAULT_MEM_ARRAYGROWINIT == 4
Infinity == 1000
SCIP_INVALID == 100000
UNINIT == 7777

SCIP_ONEVAR_UNSOLVED == 0
SCIP_ONEVAR_OPTIMAL == 1
SCIP_ONEVAR_INFEASIBLE == 2

\* ------------------------------------------------------ array primitives
\* a caller's array literal, written as a tuple, as a 0-based C array
Arr(seq) == [i \in 0..(Len(seq) - 1) |-> seq[i + 1]]

NullArr == Arr(<<>>)

\* BMSreallocBlockMemoryArray: old cells kept, new cells indeterminate
Realloc(arr, newsize) ==
    [i \in 0..(newsize - 1) |-> IF i \in DOMAIN arr THEN arr[i] ELSE UNINIT]

\* a read of cell i; outside the allocation the value is indeterminate
Rd(arr, i) == IF i \in DOMAIN arr THEN arr[i] ELSE UNINIT

\* BMScopyMemoryArray(&dst[off], src, n)
CopyArr(dst, off, src, n) ==
    [i \in DOMAIN dst |-> IF off <= i /\ i < off + n THEN Rd(src, i - off) ELSE dst[i]]

Max(a, b) == IF a >= b THEN a ELSE b

Min(a, b) == IF a <= b THEN a ELSE b

Abs(a) == IF a >= 0 THEN a ELSE 0 - a

\* a local variable: v is computed once and F reads it under its name
With(v, F(_)) == F(v)

SCIPsdpiInfinity == Infinity

SCIPsdpiIsInfinity(val) == val <= 0 - SCIPsdpiInfinity \/ val >= SCIPsdpiInfinity

\* calcGrowSize with SCIP_DEFAULT_MEM_ARRAYGROWFAC = 1.2
RECURSIVE GrowLoop(_, _, _)
GrowLoop(size, initsize, num) ==
    IF size < num THEN GrowLoop((12 * size) \div 10 + initsize, initsize, num) ELSE size

calcGrowSize(initsize, num) ==
    LET init == Max(initsize, SCIP_DEFAULT_MEM_ARRAYGROWINIT)
    IN  GrowLoop(init, init, num)

ensureBoundDataMemory(s, nvars) ==
    IF nvars > s.maxnvars
    THEN LET newsize == calcGrowSize(s.maxnvars, nvars)
         IN  [s EXCEPT !.obj = Realloc(@, newsize),
                       !.lb = Realloc(@, newsize),
                       !.ub = Realloc(@, newsize),
                       !.isintegral = Realloc(@, newsize),
                       !.sdpilb = Realloc(@, newsize),
                       !.sdpiub = Realloc(@, newsize),
                       !.sdpilbrowidx = Realloc(@, newsize),
                       !.sdpiubrowidx = Realloc(@, newsize),
                       !.maxnvars = newsize]
    ELSE s

ensureLPDataMemory(s, nlpcons, nlpnonz) ==
    LET s1 == IF nlpcons > s.maxnlpcons
              THEN LET newsize == calcGrowSize(s.maxnlpcons, nlpcons)
                   IN  [s EXCEPT !.lplhs = Realloc(@, newsize),
                                 !.lprhs = Realloc(@, newsize),
                                 !.lpbeg = Realloc(@, newsize),
                                 !.sdpilpindchanges = Realloc(@, newsize),
                                 !.sdpilplhs = Realloc(@, newsize),
                                 !.sdpilprhs = Realloc(@, newsize),
                                 !.sdpilpbeg = Realloc(@, newsize),
                                 !.maxnlpcons = newsize]
              ELSE s
    IN  IF nlpnonz > s1.maxlpnnonz
        THEN LET newsize == calcGrowSize(s1.maxlpnnonz, nlpnonz)
             IN  [s1 EXCEPT !.lpind = Realloc(@, newsize),
                            !.lpval = Realloc(@, newsize),
                            !.sdpilpind = Realloc(@, newsize),
                            !.sdpilpval = Realloc(@, newsize),
                            !.maxlpnnonz = newsize]
        ELSE s1

\* ------------------------------------------------------------ SCIPsdpiCreate
\* The statistics that only ever grow (ninfeasible, nallfixed, nonevarsdp,
\* niterations, opttime) and the backend's own call counter are left out: no
\* decision of the interface reads them.  peninfeasadjust is not assigned by
\* SCIPsdpiCreate, so it starts with an indeterminate value.
SCIPsdpiCreate(peninfeasadjust) ==
    [ sdpid |-> 1, nsdpcalls |-> 0,
      nvars |-> 0, maxnvars |-> 0,
      nsdpblocks |-> 0, sdpconstnnonz |-> 0, sdpnnonz |-> 0,
      nlpcons |-> 0, maxnlpcons |-> 0, nactivelpcons |-> 0 - 1,
      lpnnonz |-> 0, maxlpnnonz |-> 0,
      slatercheck |-> 0,
      solved |-> FALSE, penalty |-> FALSE, infeasible |-> FALSE, allfixed |-> FALSE,
      obj |-> NullArr, lb |-> NullArr, ub |-> NullArr, isintegral |-> NullArr,
      sdpilb |-> NullArr, sdpiub |-> NullArr,
      sdpilbrowidx |-> NullArr, sdpiubrowidx |-> NullArr,
      sdpblocksizes |-> NullArr, sdpnblockvars |-> NullArr,
      sdpconstnblocknonz |-> NullArr,
      sdpconstrow |-> NullArr, sdpconstcol |-> NullArr, sdpconstval |-> NullArr,
      sdpnblockvarnonz |-> NullArr, sdpvar |-> NullArr,
      sdprow |-> NullArr, sdpcol |-> NullArr, sdpval |-> NullArr,
      indchanges |-> NullArr, nremovedinds |-> NullArr,
      blockindchanges |-> NullArr, nremovedblocks |-> 0,
      lplhs |-> NullArr, lprhs |-> NullArr, lpbeg |-> NullArr,
      lpind |-> NullArr, lpval |-> NullArr,
      sdpilpindchanges |-> NullArr, sdpilplhs |-> NullArr, sdpilprhs |-> NullArr,
      sdpilpbeg |-> NullArr, sdpilpind |-> NullArr, sdpilpval |-> NullArr,
      epsilon |-> DEFAULT_EPSILON, gaptol |-> DEFAULT_SDPSOLVERGAPTOL,
      feastol |-> DEFAULT_FEASTOL,
      penaltyparam |-> DEFAULT_PENALTYPARAM,
      maxpenaltyparam |-> DEFAULT_MAXPENALTYPARAM,
      npenaltyincr |-> DEFAULT_NPENALTYINCR,
      peninfeasadjust |-> peninfeasadjust,
      bestbound |-> 0 - Infinity,
      primalslater |-> "SCIP_SDPSLATER_NOINFO",
      dualslater |-> "SCIP_SDPSLATER_NOINFO",
      solvedonevarsdp |-> SCIP_ONEVAR_UNSOLVED,
      onevarsdpobjval |-> SCIP_INVALID, onevarsdpoptval |-> SCIP_INVALID,
      onevarsdpidx |-> 0 - 1 ]

\* SDPIclockCreate
SDPIclockCreate == [nruns |-> 0]

\* ------------------------------------------------------------- mutators
\* p is the caller's argument list (one field per parameter).  The SDP
\* arrays are kept at their logical length: the cells past nsdpblocks,
\* sdpnblockvars[b] and sdpnblockvarnonz[b][v] are never read.
SCIPsdpiLoadSDP(s, p) ==
    LET s1 == ensureLPDataMemory(ensureBoundDataMemory(s, p.nvars), p.nlpcons, p.lpnnonz)
        s2 == [s1 EXCEPT
                 !.obj = CopyArr(@, 0, p.obj, p.nvars),
                 !.lb = CopyArr(@, 0, p.lb, p.nvars),
                 !.ub = CopyArr(@, 0, p.ub, p.nvars),
                 !.isintegral = CopyArr(@, 0, p.isintegral, p.nvars),
                 !.sdpblocksizes = p.sdpblocksizes,
                 !.sdpnblockvars = p.sdpnblockvars,
                 !.sdpconstnblocknonz = p.sdpconstnblocknonz,
                 !.sdpnblockvarnonz = p.sdpnblockvarnonz,
                 !.sdpvar = p.sdpvar,
                 !.sdpconstrow = p.sdpconstrow,
                 !.sdpconstcol = p.sdpconstcol,
                 !.sdpconstval = p.sdpconstval,
                 !.sdprow = p.sdprow,
                 !.sdpcol = p.sdpcol,
                 !.sdpval = p.sdpval]
        s3 == IF p.nlpcons > 0
              THEN [s2 EXCEPT
                      !.lplhs = CopyArr(@, 0, p.lplhs, p.nlpcons),
                      !.lprhs = CopyArr(@, 0, p.lprhs, p.nlpcons),
                      !.lpbeg = CopyArr(@, 0, p.lpbeg, p.nlpcons),
                      !.lpind = CopyArr(@, 0, p.lpind, p.lpnnonz),
                      !.lpval = CopyArr(@, 0, p.lpval, p.lpnnonz)]
              ELSE s2
    IN  [s3 EXCEPT !.nvars = p.nvars,
                   !.nsdpblocks = p.nsdpblocks,
                   !.sdpconstnnonz = p.sdpconstnnonz,
                   !.sdpnnonz = p.sdpnnonz,
                   !.lpnnonz = p.lpnnonz,
                   !.nlpcons = p.nlpcons,
                   !.nactivelpcons = 0 - 1,
                   !.solved = FALSE,
                   !.infeasible = FALSE,
                   !.allfixed = FALSE,
                   !.nsdpcalls = 0]

\* r is the caller's argument list: nrows, lhs, rhs, nnonz, beg, ind, val
SCIPsdpiAddLPRows(s, r) ==
    IF r.nrows = 0
    THEN s
    ELSE LET s1 == ensureLPDataMemory(s, s.nlpcons + r.nrows, s.lpnnonz + r.nnonz)
             s2 == [s1 EXCEPT
                      !.lplhs = CopyArr(@, s.nlpcons, r.lhs, r.nrows),
                      !.lprhs = CopyArr(@, s.nlpcons, r.rhs, r.nrows),
                      !.lpbeg = CopyArr(@, s.nlpcons, r.beg, r.nrows),
                      !.lpind = CopyArr(@, s.lpnnonz, r.ind, r.nnonz),
                      !.lpval = CopyArr(@, s.lpnnonz, r.val, r.nnonz),
                      !.nlpcons = s.nlpcons + r.nrows,
                      !.lpnnonz = s.lpnnonz + r.nnonz,
                      !.nactivelpcons = 0 - 1]
         IN  [s2 EXCEPT !.solved = FALSE,
                        !.infeasible = FALSE,
                        !.nsdpcalls = 0]

\* One array cell written; a write outside the allocation lands in memory
\* that is not part of the model.
Wr(arr, i, x) == IF i \in DOMAIN arr THEN [arr EXCEPT ![i] = x] ELSE arr

\* for (i = from; i < to; i++) arr[i - shift] = arr[i]
RECURSIVE ShiftDown(_, _, _, _)
ShiftDown(arr, from, to, shift) ==
    IF from >= to THEN arr
    ELSE ShiftDown(Wr(arr, from - shift, Rd(arr, from)), from + 1, to, shift)

\* junk is what the read of lpbeg[lastrow + 1] yields when that cell was
\* never written (lastrow is the last row of the LP)
SCIPsdpiDelLPRows(s, firstrow, lastrow, junk) ==
    IF firstrow = 0 /\ lastrow = s.nlpcons - 1
    THEN [s EXCEPT !.nlpcons = 0,
                   !.lpnnonz = 0,
                   !.nactivelpcons = 0 - 1,
                   !.solved = FALSE,
                   !.infeasible = FALSE,
                   !.allfixed = FALSE,
                   !.nsdpcalls = 0]
    ELSE LET deletedrows == lastrow - firstrow + 1
             lplhs == ShiftDown(s.lplhs, lastrow + 1, s.nlpcons, deletedrows)
             lprhs == ShiftDown(s.lprhs, lastrow + 1, s.nlpcons, deletedrows)
             lpbeg == ShiftDown(s.lpbeg, lastrow + 1, s.nlpcons, deletedrows)
             cell == Rd(lpbeg, lastrow + 1)
             nextbeg == IF lastrow = s.nlpcons THEN s.lpnnonz
                        ELSE IF cell = UNINIT THEN junk ELSE cell
             deletednonz == nextbeg - Rd(lpbeg, firstrow) + 1
         IN  [s EXCEPT !.lplhs = lplhs,
                       !.lprhs = lprhs,
                       !.lpbeg = lpbeg,
                       !.lpind = ShiftDown(@, nextbeg, s.lpnnonz, deletednonz),
                       !.nlpcons = s.nlpcons - deletedrows,
                       !.lpnnonz = s.lpnnonz - deletednonz,
                       !.nactivelpcons = 0 - 1,
                       !.solved = FALSE,
                       !.infeasible = FALSE,
                       !.allfixed = FALSE,
                       !.nsdpcalls = 0]

\* the loop of SCIPsdpiDelLPRowset over the rows i..oldnlpcons-1
RECURSIVE DelLPRowsetLoop(_, _, _, _, _, _)
DelLPRowsetLoop(s, dstat, i, oldnlpcons, deletedrows, junk) ==
    IF i >= oldnlpcons THEN s
    ELSE IF dstat[i] = 1
         THEN DelLPRowsetLoop(SCIPsdpiDelLPRows(s, i - deletedrows, i - deletedrows, junk),
                              dstat, i + 1, oldnlpcons, deletedrows + 1, junk)
         ELSE DelLPRowsetLoop(s, dstat, i + 1, oldnlpcons, deletedrows, junk)

SCIPsdpiDelLPRowset(s, dstat, junk) ==
    [DelLPRowsetLoop(s, dstat, 0, s.nlpcons, 0, junk) EXCEPT
        !.solved = FALSE,
        !.infeasible = FALSE,
        !.allfixed = FALSE,
        !.nsdpcalls = 0]

SCIPsdpiClear(s) ==
    [s EXCEPT !.nlpcons = 0,
              !.lpnnonz = 0,
              !.nactivelpcons = 0 - 1,
              !.sdpnblockvarnonz =
                  [b \in DOMAIN @ |-> IF b < s.nsdpblocks
                                      THEN [v \in DOMAIN @[b] |-> IF v < s.sdpnblockvars[b] THEN 0 ELSE @[b][v]]
                                      ELSE @[b]],
              !.sdpnblockvars = [b \in DOMAIN @ |-> IF b < s.nsdpblocks THEN 0 ELSE @[b]],
              !.sdpconstnblocknonz = [b \in DOMAIN @ |-> IF b < s.nsdpblocks THEN 0 ELSE @[b]],
              !.sdpblocksizes = [b \in DOMAIN @ |-> IF b < s.nsdpblocks THEN 0 ELSE @[b]],
              !.sdpconstnnonz = 0,
              !.sdpnnonz = 0,
              !.nsdpblocks = 0,
              !.nvars = 0,
              !.sdpid = 1]

\* one entry (nvars = 1 in the call) is changed per call
SCIPsdpiChgObj(s, ind, obj) ==
    [s EXCEPT !.obj = Wr(@, ind, obj),
              !.solved = FALSE,
              !.nsdpcalls = 0]

SCIPsdpiChgBounds(s, ind, lb, ub) ==
    [s EXCEPT !.lb = Wr(@, ind, lb),
              !.ub = Wr(@, ind, ub),
              !.solved = FALSE,
              !.infeasible = FALSE,
              !.allfixed = FALSE,
              !.nsdpcalls = 0]

SCIPsdpiChgLPLhRhSides(s, ind, lhs, rhs) ==
    [s EXCEPT !.lplhs = Wr(@, ind, lhs),
              !.lprhs = Wr(@, ind, rhs),
              !.solved = FALSE,
              !.infeasible = FALSE,
              !.allfixed = FALSE,
              !.nsdpcalls = 0]

\* ---------------------------------------------------------- preprocessing
\* the release-build macro; the assertion of the debug-build function is
\* isFixedAssert
isFixed(s, v) == Rd(s.sdpiub, v) - Rd(s.sdpilb, v) <= s.epsilon

isFixedAssert(s, v) == Rd(s.sdpilb, v) <= Rd(s.sdpiub, v) + s.epsilon

\* RealDiv with twice the divisor
RealDivByTwice(a, b) ==
    LET q == Abs(a) \div (2 * Abs(b))
    IN  IF (a >= 0) = (b > 0) THEN q ELSE 0 - q

\* a / b for SCIP_Real operands; the rows of the model divide exactly
RealDiv(a, b) ==
    LET q == Abs(a) \div Abs(b)
    IN  IF (a >= 0) = (b > 0) THEN q ELSE 0 - q

\* tightenRowCoefs, first loop: the activities of the row whose entries are
\* rowvals[0..rownnonz-1] = vals[base..], rowinds likewise.
\* a = [minact, maxact, minactinf, maxactinf, maxintabsval, hasintvar]
RECURSIVE tightenActivities(_, _, _, _, _, _, _)
tightenActivities(s, vals, inds, base, rownnonz, i, a) ==
    IF i >= rownnonz THEN a
    ELSE LET val == Rd(vals, base + i)
             ind == Rd(inds, base + i)
             lb == Rd(s.sdpilb, ind)
             ub == Rd(s.sdpiub, ind)
             isint == Rd(s.isintegral, ind) = TRUE
             a1 == IF isint
                   THEN [a EXCEPT !.maxintabsval = Max(@, Abs(val)), !.hasintvar = TRUE]
                   ELSE a
             a2 == IF val > 0
                   THEN [a1 EXCEPT
                           !.maxact = IF ub < Infinity THEN @ + val * ub ELSE @,
                           !.maxactinf = IF ub < Infinity THEN @ ELSE TRUE,
                           !.minact = IF lb > 0 - Infinity THEN @ + val * lb ELSE @,
                           !.minactinf = IF lb > 0 - Infinity THEN @ ELSE TRUE]
                   ELSE [a1 EXCEPT
                           !.maxact = IF lb > 0 - Infinity THEN @ + val * lb ELSE @,
                           !.maxactinf = IF lb > 0 - Infinity THEN @ ELSE TRUE,
                           !.minact = IF ub < Infinity THEN @ + val * ub ELSE @,
                           !.minactinf = IF ub < Infinity THEN @ ELSE TRUE]
         IN  tightenActivities(s, vals, inds, base, rownnonz, i + 1, a2)

\* tightenRowCoefs, second loop over the integral variables.
\* r = [vals, inds, rownnonz, lhs, rhs, minact, maxact, minactquad, maxactquad]
RECURSIVE tightenLoop(_, _, _, _)
tightenLoop(s, base, i, r) ==
    IF i >= r.rownnonz THEN r
    ELSE LET val == Rd(r.vals, base + i)
             ind == Rd(r.inds, base + i)
             lb == Rd(s.sdpilb, ind)
             ub == Rd(s.sdpiub, ind)
             eps == s.epsilon
             pos == val > 0 /\ r.minact + val >= r.lhs - eps /\ r.maxact - val <= r.rhs + eps
             neg == val < 0 /\ r.minact - val >= r.lhs - eps /\ r.maxact + val <= r.rhs + eps
             newval == IF pos THEN Max(r.lhs - r.minact, r.maxact - r.rhs)
                       ELSE Min(r.minact - r.lhs, r.rhs - r.maxact)
             lhsbnd == IF pos THEN lb ELSE ub
             rhsbnd == IF pos THEN ub ELSE lb
             lhsdelta == (newval - val) * lhsbnd
             rhsdelta == (newval - val) * rhsbnd
             newlhs == IF r.lhs > 0 - Infinity THEN lhsdelta + r.lhs ELSE r.lhs
             newrhs == IF r.rhs < Infinity THEN rhsdelta + r.rhs ELSE r.rhs
             keep == IF pos THEN newval > eps ELSE newval < 0 - eps
         IN  IF Rd(s.isintegral, ind) # TRUE THEN tightenLoop(s, base, i + 1, r)
             ELSE IF (pos \/ neg) /\ Abs(newval - val) > eps
             THEN IF keep
                  THEN tightenLoop(s, base, i + 1,
                          [r EXCEPT !.lhs = newlhs, !.rhs = newrhs,
                                    !.minactquad = IF newlhs > 0 - Infinity THEN @ + lhsdelta ELSE @,
                                    !.minact = IF newlhs > 0 - Infinity
                                               THEN r.minactquad + lhsdelta ELSE @,
                                    !.maxactquad = IF newrhs < Infinity THEN @ + rhsdelta ELSE @,
                                    !.maxact = IF newrhs < Infinity
                                               THEN r.maxactquad + rhsdelta ELSE @,
                                    !.vals = Wr(@, base + i, newval)])
                  ELSE tightenLoop(s, base, i,
                          [r EXCEPT !.lhs = newlhs, !.rhs = newrhs,
                                    !.rownnonz = @ - 1,
                                    !.vals = Wr(@, base + i, Rd(@, base + r.rownnonz - 1)),
                                    !.inds = Wr(@, base + i, Rd(@, base + r.rownnonz - 1))])
             ELSE tightenLoop(s, base, i + 1, r)

\* tightenRowCoefs after the first loop, a being the activities it computed
\* and minact, maxact the activities with their infinite contributions
tightenRowCoefsTail(s, vals, inds, base, rownnonz, rowlhs, rowrhs, out, a, minact, maxact) ==
    With(rowlhs <= 0 - Infinity \/ minact >= rowlhs - s.epsilon, LAMBDA lhsred :
    With(rowrhs >= Infinity \/ maxact <= rowrhs + s.epsilon, LAMBDA rhsred :
        IF lhsred /\ rhsred
        THEN [out EXCEPT !.lhsredundant = TRUE, !.rhsredundant = TRUE]
        ELSE IF minact + a.maxintabsval < rowlhs - s.epsilon
                \/ maxact - a.maxintabsval > rowrhs + s.epsilon
             THEN [out EXCEPT !.lhsredundant = lhsred, !.rhsredundant = rhsred]
        ELSE With(tightenLoop(s, base, 0,
                     [vals |-> vals, inds |-> inds, rownnonz |-> rownnonz,
                      lhs |-> rowlhs, rhs |-> rowrhs,
                      minact |-> minact, maxact |-> maxact,
                      minactquad |-> a.minact, maxactquad |-> a.maxact]), LAMBDA r :
                 [vals |-> r.vals, inds |-> r.inds, rownnonz |-> r.rownnonz,
                  lhs |-> r.lhs, rhs |-> r.rhs,
                  lhsredundant |-> lhsred, rhsredundant |-> rhsred])))

\* result: [vals, inds, rownnonz, lhs, rhs, lhsredundant, rhsredundant]
tightenRowCoefs(s, vals, inds, base, rownnonz, rowlhs, rowrhs) ==
    With([vals |-> vals, inds |-> inds, rownnonz |-> rownnonz,
          lhs |-> rowlhs, rhs |-> rowrhs,
          lhsredundant |-> FALSE, rhsredundant |-> FALSE], LAMBDA out :
    With(tightenActivities(s, vals, inds, base, rownnonz, 0,
            [minact |-> 0, maxact |-> 0, minactinf |-> FALSE, maxactinf |-> FALSE,
             maxintabsval |-> 0, hasintvar |-> FALSE]), LAMBDA a :
        IF Abs(rowlhs - rowrhs) < s.epsilon THEN out
        ELSE IF ~a.hasintvar THEN out
        ELSE IF a.minactinf /\ a.maxactinf THEN out
        ELSE tightenRowCoefsTail(s, vals, inds, base, rownnonz, rowlhs, rowrhs, out, a,
                 IF a.minactinf THEN 0 - Infinity ELSE a.minact,
                 IF a.maxactinf THEN Infinity ELSE a.maxact)))

\* prepareLPData, inner loop over the entries j of row i.
\* e = [sdpilpind, sdpilpval, nlpnonz, nrownonz, nonzind, rowconst]
RECURSIVE prepareRowEntries(_, _, _, _)
prepareRowEntries(s, j, nextbeg, e) ==
    IF j >= nextbeg THEN e
    ELSE IF ~isFixed(s, Rd(s.lpind, j))
         THEN prepareRowEntries(s, j + 1, nextbeg,
                 [e EXCEPT !.sdpilpind = Wr(@, e.nlpnonz, Rd(s.lpind, j)),
                           !.sdpilpval = Wr(@, e.nlpnonz, Rd(s.lpval, j)),
                           !.nlpnonz = @ + 1,
                           !.nrownonz = @ + 1,
                           !.nonzind = j])
         ELSE prepareRowEntries(s, j + 1, nextbeg,
                 [e EXCEPT !.rowconst = @ + Rd(s.lpval, j) * Rd(s.sdpilb, Rd(s.lpind, j))])

\* prepareSingletonRow with the bounds written to lb and ub, the bounds of
\* the problem, instead of to sdpilb and sdpiub
prepareSingletonRowOnProblem(s, i, nonzind, lhs, rhs) ==
    With(Rd(s.lpind, nonzind), LAMBDA lpcol :
    With(Rd(s.lpval, nonzind), LAMBDA lpval :
    With(IF lpval > 0
         THEN IF lhs > 0 - Infinity THEN RealDiv(lhs, lpval) ELSE 0 - Infinity
         ELSE IF rhs < Infinity THEN RealDiv(rhs, lpval) ELSE 0 - Infinity, LAMBDA lb :
    With(IF lpval > 0
         THEN IF rhs < Infinity THEN RealDiv(rhs, lpval) ELSE Infinity
         ELSE IF lhs > 0 - Infinity THEN RealDiv(lhs, lpval) ELSE Infinity, LAMBDA ub :
    With(IF lb > Rd(s.sdpilb, lpcol) + s.epsilon
         THEN [s EXCEPT !.sdpilb = Wr(@, lpcol, lb), !.lb = Wr(@, lpcol, lb),
                        !.sdpilbrowidx = Wr(@, lpcol, IF lpval < 0 THEN i + 1 ELSE 0 - i - 1)]
         ELSE s, LAMBDA s1 :
    With(IF ub < Rd(s1.sdpiub, lpcol) - s.epsilon
         THEN [s1 EXCEPT !.sdpiub = Wr(@, lpcol, ub), !.ub = Wr(@, lpcol, ub),
                         !.sdpiubrowidx = Wr(@, lpcol, IF lpval > 0 THEN i + 1 ELSE 0 - i - 1)]
         ELSE s1, LAMBDA s2 :
        IF Rd(s2.sdpiub, lpcol) < Rd(s2.sdpilb, lpcol) - s.epsilon
        THEN [s |-> [s2 EXCEPT !.infeasible = TRUE], return |-> TRUE, fixing |-> FALSE]
        ELSE [s |-> s2, return |-> FALSE,
              fixing |-> Abs(Rd(s2.sdpilb, lpcol) - Rd(s2.sdpiub, lpcol)) < s.epsilon]))))))

\* prepareSingletonRow reporting every tightened bound as a fixing
prepareSingletonRowFlagsTightening(s, i, nonzind, lhs, rhs) ==
    With(Rd(s.lpind, nonzind), LAMBDA lpcol :
    With(Rd(s.lpval, nonzind), LAMBDA lpval :
    With(IF lpval > 0
         THEN IF lhs > 0 - Infinity THEN RealDiv(lhs, lpval) ELSE 0 - Infinity
         ELSE IF rhs < Infinity THEN RealDiv(rhs, lpval) ELSE 0 - Infinity, LAMBDA lb :
    With(IF lpval > 0
         THEN IF rhs < Infinity THEN RealDiv(rhs, lpval) ELSE Infinity
         ELSE IF lhs > 0 - Infinity THEN RealDiv(lhs, lpval) ELSE Infinity, LAMBDA ub :
    With(IF lb > Rd(s.sdpilb, lpcol) + s.epsilon
         THEN [s EXCEPT !.sdpilb = Wr(@, lpcol, lb),
                        !.sdpilbrowidx = Wr(@, lpcol, IF lpval < 0 THEN i + 1 ELSE 0 - i - 1)]
         ELSE s, LAMBDA s1 :
    With(IF ub < Rd(s1.sdpiub, lpcol) - s.epsilon
         THEN [s1 EXCEPT !.sdpiub = Wr(@, lpcol, ub),
                         !.sdpiubrowidx = Wr(@, lpcol, IF lpval > 0 THEN i + 1 ELSE 0 - i - 1)]
         ELSE s1, LAMBDA s2 :
        IF Rd(s2.sdpiub, lpcol) < Rd(s2.sdpilb, lpcol) - s.epsilon
        THEN [s |-> [s2 EXCEPT !.infeasible = TRUE], return |-> TRUE, fixing |-> FALSE]
        ELSE [s |-> s2, return |-> FALSE,
              fixing |-> s2 # s]))))))

\* prepareLPData, a row with exactly one active variable: the bounds it gives
prepareSingletonRow(s, i, nonzind, lhs, rhs) ==
    With(Rd(s.lpind, nonzind), LAMBDA lpcol :
    With(Rd(s.lpval, nonzind), LAMBDA lpval :
    With(IF lpval > 0
         THEN IF lhs > 0 - Infinity THEN RealDiv(lhs, lpval) ELSE 0 - Infinity
         ELSE IF rhs < Infinity THEN RealDiv(rhs, lpval) ELSE 0 - Infinity, LAMBDA lb :
    With(IF lpval > 0
         THEN IF rhs < Infinity THEN RealDiv(rhs, lpval) ELSE Infinity
         ELSE IF lhs > 0 - Infinity THEN RealDiv(lhs, lpval) ELSE Infinity, LAMBDA ub :
    With(IF lb > Rd(s.sdpilb, lpcol) + s.epsilon
         THEN [s EXCEPT !.sdpilb = Wr(@, lpcol, lb),
                        !.sdpilbrowidx = Wr(@, lpcol, IF lpval < 0 THEN i + 1 ELSE 0 - i - 1)]
         ELSE s, LAMBDA s1 :
    With(IF ub < Rd(s1.sdpiub, lpcol) - s.epsilon
         THEN [s1 EXCEPT !.sdpiub = Wr(@, lpcol, ub),
                         !.sdpiubrowidx = Wr(@, lpcol, IF lpval > 0 THEN i + 1 ELSE 0 - i - 1)]
         ELSE s1, LAMBDA s2 :
        IF Rd(s2.sdpiub, lpcol) < Rd(s2.sdpilb, lpcol) - s.epsilon
        THEN [s |-> [s2 EXCEPT !.infeasible = TRUE], return |-> TRUE, fixing |-> FALSE]
        ELSE [s |-> s2, return |-> FALSE,
              fixing |-> Abs(Rd(s2.sdpilb, lpcol) - Rd(s2.sdpiub, lpcol)) < s.epsilon]))))))

\* prepareLPData, the loop over the rows i..nlpcons-1.
\* w = [s, sdpilpnnonz, fixingsfound]; *nsdpilpcons is s.nactivelpcons
RECURSIVE prepareRows(_, _)
\* row i once its entries are collected: s1 is the interface with the
\* entries e of the row written, lhs and rhs the sides less the fixed part
prepareRow(w, i, s1, e, lhs, rhs) ==
    IF e.nrownonz >= 2
    THEN With(tightenRowCoefs(s1, s1.sdpilpval, s1.sdpilpind,
                              s1.nactivelpcons, e.nrownonz, lhs, rhs), LAMBDA t :
         With([s1 EXCEPT !.sdpilpval = t.vals, !.sdpilpind = t.inds], LAMBDA s2 :
             IF ~t.lhsredundant \/ ~t.rhsredundant
             THEN prepareRows(
                     [w EXCEPT
                        !.s = [s2 EXCEPT
                                 !.sdpilpindchanges = Wr(@, i, i - s1.nactivelpcons),
                                 !.sdpilplhs = Wr(@, i, t.lhs),
                                 !.sdpilprhs = Wr(@, i, t.rhs),
                                 !.nactivelpcons = @ + 1],
                        !.sdpilpnnonz = @ + t.rownnonz], i + 1)
             ELSE prepareRows([w EXCEPT !.s = s2], i + 1)))
    ELSE IF e.nrownonz = 1
    THEN With(prepareSingletonRow(s1, i, e.nonzind, lhs, rhs), LAMBDA b :
             IF b.return THEN [w EXCEPT !.s = b.s]
             ELSE prepareRows([w EXCEPT !.s = b.s,
                                        !.fixingsfound = @ \/ b.fixing], i + 1))
    ELSE IF lhs > s1.feastol \/ rhs < 0 - s1.feastol
         THEN [w EXCEPT !.s = [s1 EXCEPT !.infeasible = TRUE]]
         ELSE prepareRows([w EXCEPT !.s = s1], i + 1)

prepareRows(w, i) ==
    IF i >= w.s.nlpcons THEN w
    ELSE With([w.s EXCEPT !.sdpilpindchanges = Wr(@, i, 0 - 1),
                          !.sdpilplhs = Wr(@, i, SCIP_INVALID),
                          !.sdpilprhs = Wr(@, i, SCIP_INVALID),
                          !.sdpilpbeg = Wr(@, i, w.sdpilpnnonz)], LAMBDA s0 :
         With(prepareRowEntries(s0, Rd(s0.lpbeg, i),
                 IF i = s0.nlpcons - 1 THEN s0.lpnnonz ELSE Rd(s0.lpbeg, i + 1),
                 [sdpilpind |-> s0.sdpilpind, sdpilpval |-> s0.sdpilpval,
                  nlpnonz |-> w.sdpilpnnonz, nrownonz |-> 0,
                  nonzind |-> 0 - 1, rowconst |-> 0]), LAMBDA e :
             prepareRow(w, i,
                 [s0 EXCEPT !.sdpilpind = e.sdpilpind, !.sdpilpval = e.sdpilpval], e,
                 IF Rd(s0.lplhs, i) > 0 - Infinity THEN Rd(s0.lplhs, i) - e.rowconst
                 ELSE 0 - Infinity,
                 IF Rd(s0.lprhs, i) < Infinity THEN Rd(s0.lprhs, i) - e.rowconst
                 ELSE Infinity)))

\* result: [s, sdpilpnnonz, fixingsfound]
prepareLPData(s) ==
    IF s.nlpcons = 0 \/ s.lpnnonz = 0
    THEN [s |-> [s EXCEPT !.nactivelpcons = 0], sdpilpnnonz |-> 0, fixingsfound |-> FALSE]
    ELSE prepareRows(
            [s |-> [s EXCEPT
                      !.nactivelpcons = 0,
                      !.sdpilbrowidx = [v \in DOMAIN @ |-> IF v < s.nvars THEN 0 ELSE @[v]],
                      !.sdpiubrowidx = [v \in DOMAIN @ |-> IF v < s.nvars THEN 0 ELSE @[v]]],
             sdpilpnnonz |-> 0, fixingsfound |-> FALSE], 0)

\* do prepareLPData(...) while ( fixingfound && ! sdpi->infeasible )
RECURSIVE prepareLoop(_)
prepareLoop(s) ==
    With(prepareLPData(s), LAMBDA w :
        IF w.fixingsfound /\ ~w.s.infeasible THEN prepareLoop(w.s) ELSE w)

\* ------------------------------------------------------------ SDP blocks
RECURSIVE SumTo(_, _)
SumTo(f, n) == IF n <= 0 THEN 0 ELSE f[n - 1] + SumTo(f, n - 1)

Positions(size) == (0..(size - 1)) \X (0..(size - 1))

\* the value the stored constant matrix of block b has at (r, c)
constEntry(s, b, r, c) ==
    SumTo([i \in 0..(s.sdpconstnblocknonz[b] - 1) |->
             IF s.sdpconstrow[b][i] = r /\ s.sdpconstcol[b][i] = c
             THEN s.sdpconstval[b][i] ELSE 0],
          s.sdpconstnblocknonz[b])

\* the value the matrix of the v-th variable of block b has at (r, c)
varEntry(s, b, v, r, c) ==
    SumTo([i \in 0..(s.sdpnblockvarnonz[b][v] - 1) |->
             IF s.sdprow[b][v][i] = r /\ s.sdpcol[b][v][i] = c
             THEN s.sdpval[b][v][i] ELSE 0],
          s.sdpnblockvarnonz[b][v])

\* SCIPsdpVarfixerMergeArraysIntoNew: entries of the same position are
\* added, an entry whose sum is not above epsilon in absolute value is dropped
SCIPsdpVarfixerMergeArraysIntoNew(epsilon, first, second) ==
    [rc \in DOMAIN first |->
        IF Abs(first[rc] + second[rc]) > epsilon THEN first[rc] + second[rc] ELSE 0]

\* compConstMatAfterFixings: for each block the constant matrix after the
\* fixed variables have been moved into it, as a function of the position
compConstMatAfterFixings(s) ==
    [b \in 0..(s.nsdpblocks - 1) |->
        LET size == s.sdpblocksizes[b]
            fixed == [rc \in Positions(size) |->
                        SumTo([v \in 0..(s.sdpnblockvars[b] - 1) |->
                                 LET varidx == s.sdpvar[b][v]
                                 IN  IF isFixed(s, varidx) /\ Abs(Rd(s.sdpilb, varidx)) > s.epsilon
                                     THEN (0 - varEntry(s, b, v, rc[1], rc[2])) * Rd(s.sdpilb, varidx)
                                     ELSE 0],
                              s.sdpnblockvars[b])]
            const == [rc \in Positions(size) |-> constEntry(s, b, rc[1], rc[2])]
        IN  SCIPsdpVarfixerMergeArraysIntoNew(s.epsilon, const, fixed)]

\* findEmptyRowColsSDP: the row/column indices of block b that still carry
\* an entry of a free variable or of the constant matrix after fixings.
\* The loops of the source stop early once every index is found, which
\* yields the same set.
foundInds(s, sdpconst, b) ==
    LET size == s.sdpblocksizes[b]
        byvar == {i \in 0..(size - 1) :
                    \E v \in 0..(s.sdpnblockvars[b] - 1) :
                        /\ ~isFixed(s, s.sdpvar[b][v])
                        /\ \E k \in 0..(s.sdpnblockvarnonz[b][v] - 1) :
                              s.sdprow[b][v][k] = i \/ s.sdpcol[b][v][k] = i}
        byconst == {i \in 0..(size - 1) :
                      \E rc \in Positions(size) :
                          sdpconst[b][rc] # 0 /\ (rc[1] = i \/ rc[2] = i)}
    IN  IF Cardinality(byvar) < size THEN byvar \cup byconst ELSE byvar

findEmptyRowColsSDP(s, sdpconst) ==
    IF s.nsdpblocks <= 0 THEN s
    ELSE LET blocks == 0..(s.nsdpblocks - 1)
             found == [b \in blocks |-> foundInds(s, sdpconst, b)]
             nrem == [b \in blocks |-> s.sdpblocksizes[b] - Cardinality(found[b])]
             empty == {b \in blocks : nrem[b] = s.sdpblocksizes[b]}
         IN  [s EXCEPT
                !.indchanges = [b \in blocks |->
                    [i \in 0..(s.sdpblocksizes[b] - 1) |->
                        IF i \in found[b]
                        THEN Cardinality({j \in 0..(i - 1) : j \notin found[b]})
                        ELSE 0 - 1]],
                !.nremovedinds = nrem,
                !.blockindchanges = [b \in blocks |->
                    IF b \in empty THEN 0 - 1
                    ELSE Cardinality({c \in empty : c < b})],
                !.nremovedblocks = Cardinality(empty)]

\* fullmatrix with the constant matrix added instead of subtracted
fullmatrixPlusConst(s, b) ==
    [rc \in Positions(s.sdpblocksizes[b]) |->
        LET r == Max(rc[1], rc[2])
            c == Min(rc[1], rc[2])
        IN  constEntry(s, b, r, c)
            + SumTo([v \in 0..(s.sdpnblockvars[b] - 1) |->
                       LET fixedval == Rd(s.sdpilb, s.sdpvar[b][v])
                       IN  IF Abs(fixedval) < s.epsilon THEN 0
                           ELSE fixedval * varEntry(s, b, v, r, c)],
                    s.sdpnblockvars[b])]

\* checkFixedFeasibilitySdp: the matrix handed to the eigenvalue routine
fullmatrix(s, b) ==
    [rc \in Positions(s.sdpblocksizes[b]) |->
        LET r == Max(rc[1], rc[2])
            c == Min(rc[1], rc[2])
        IN  (0 - constEntry(s, b, r, c))
            + SumTo([v \in 0..(s.sdpnblockvars[b] - 1) |->
                       LET fixedval == Rd(s.sdpilb, s.sdpvar[b][v])
                       IN  IF Abs(fixedval) < s.epsilon THEN 0
                           ELSE fixedval * varEntry(s, b, v, r, c)],
                    s.sdpnblockvars[b])]

\* SCIPlapackComputeIthEigenvalue(i = 1) compared with a threshold: is the
\* smallest eigenvalue of the symmetric matrix m below t?  (blocks of size
\* one and two: Sylvester's criterion for m - t*I)
smallestEigenvalueBelow(m, size, t) ==
    IF size = 1 THEN m[<<0, 0>>] < t
    ELSE ~ ( /\ m[<<0, 0>>] - t >= 0
             /\ m[<<1, 1>>] - t >= 0
             /\ (m[<<0, 0>>] - t) * (m[<<1, 1>>] - t) >= m[<<1, 0>>] * m[<<1, 0>>] )

checkFixedFeasibilitySdp(s) ==
    IF \E b \in 0..(s.nsdpblocks - 1) :
          smallestEigenvalueBelow(fullmatrix(s, b), s.sdpblocksizes[b], 0 - s.feastol)
    THEN [s EXCEPT !.infeasible = TRUE]
    ELSE s

\* ----------------------------------------------------------- the backend
\* The backend solver is a collaborator: what is kept of it is the outcome
\* of its last solve and its gap tolerance parameter.
Statuses == {"optimal", "dualinfeasible", "dualunbounded", "unconverged", "timelimit"}

ObjVals == {0 - 4, 0, 4, 20}

SCIPsdpiSolverCreate ==
    [status |-> "unsolved", objval |-> 0, gaptol |-> DEFAULT_SDPSOLVERGAPTOL]

\* what one call of SCIPsdpiSolverLoadAndSolve[WithPenalty] can come back with
SolverResponses ==
    {[retcode |-> "SCIP_OKAY", status |-> "optimal", objval |-> v] : v \in ObjVals}
    \cup {[retcode |-> "SCIP_OKAY", status |-> "dualinfeasible", objval |-> Infinity],
          [retcode |-> "SCIP_OKAY", status |-> "dualunbounded", objval |-> 0 - Infinity],
          [retcode |-> "SCIP_OKAY", status |-> "unconverged", objval |-> 0],
          [retcode |-> "SCIP_OKAY", status |-> "timelimit", objval |-> 0],
          [retcode |-> "SCIP_ERROR", status |-> "unsolved", objval |-> 0]}

SCIPsdpiSolverLoadAndSolve(sv, resp) ==
    [sv EXCEPT !.status = resp.status, !.objval = resp.objval]

SCIPsdpiSolverWasSolved(sv) == sv.status # "unsolved"

SCIPsdpiSolverIsOptimal(sv) == sv.status = "optimal"

SCIPsdpiSolverIsDualInfeasible(sv) == sv.status = "dualinfeasible"

SCIPsdpiSolverIsDualUnbounded(sv) == sv.status = "dualunbounded"

SCIPsdpiSolverIsPrimalUnbounded(sv) == sv.status = "dualinfeasible"

SCIPsdpiSolverIsAcceptable(sv) ==
    sv.status \in {"optimal", "dualinfeasible", "dualunbounded"}

SCIPsdpiSolverIsTimelimExc(sv) == sv.status = "timelimit"

SCIPsdpiSolverGetObjval(sv) == sv.objval

\* ------------------------------------------------------------- the clock
SDPIclockStart(clck) == [clck EXCEPT !.nruns = @ + 1]

SDPIclockStop(clck) == [clck EXCEPT !.nruns = @ - 1]

\* ----------------------------------------------------------- SCIPsdpiSolve
\* solveReset without the resets of the results of the one-variable branch
solveResetKeepOneVar(s) ==
    [s EXCEPT !.penalty = FALSE,
              !.bestbound = 0 - Infinity,
              !.solved = FALSE,
              !.infeasible = FALSE,
              !.allfixed = FALSE,
              !.nsdpcalls = 0]

\* the assignments at the start of SCIPsdpiSolve
solveReset(s) ==
    [s EXCEPT !.penalty = FALSE,
              !.bestbound = 0 - Infinity,
              !.solved = FALSE,
              !.infeasible = FALSE,
              !.allfixed = FALSE,
              !.nsdpcalls = 0,
              !.solvedonevarsdp = SCIP_ONEVAR_UNSOLVED,
              !.onevarsdpobjval = SCIP_INVALID,
              !.onevarsdpoptval = SCIP_INVALID,
              !.onevarsdpidx = 0 - 1]

\* for (v = 0; v < nvars && ! infeasible; v++): copy bounds
RECURSIVE copyBounds(_, _)
copyBounds(s, v) ==
    IF v >= s.nvars \/ s.infeasible THEN s
    ELSE LET s1 == [s EXCEPT !.sdpilb = Wr(@, v, Rd(s.lb, v)),
                             !.sdpiub = Wr(@, v, Rd(s.ub, v))]
         IN  copyBounds(IF Rd(s1.sdpiub, v) < Rd(s1.sdpilb, v) - s1.feastol
                        THEN [s1 EXCEPT !.infeasible = TRUE]
                        ELSE s1, v + 1)

\* infeasibleExit without the assignment to solved
infeasibleExitUnsolved(s) ==
    [s EXCEPT !.dualslater = "SCIP_SDPSLATER_NOINFO",
              !.primalslater = "SCIP_SDPSLATER_NOINFO"]

\* the assignments made before a return that needs no backend call
infeasibleExit(s) ==
    [s EXCEPT !.solved = TRUE,
              !.dualslater = "SCIP_SDPSLATER_NOINFO",
              !.primalslater = "SCIP_SDPSLATER_NOINFO"]

\* activeVars without a look at the first variable
activeVarsButFirst(s) == {v \in 1..(s.nvars - 1) : ~isFixed(s, v)}

activeVars(s) == {v \in 0..(s.nvars - 1) : ~isFixed(s, v)}

\* fixedvarsobjcontr without the fixed variables
fixedvarsobjcontrNone(s) == 0

fixedvarsobjcontr(s) ==
    SumTo([v \in 0..(s.nvars - 1) |->
             IF isFixed(s, v) THEN Rd(s.obj, v) * Rd(s.sdpilb, v) ELSE 0], s.nvars)

\* what SCIPsolveOneVarSDP can come back with for the variable with
\* objective obj and bounds lb, ub: not solved, infeasible, or an optimum
OneVarOutcomes == {"unsolved", "infeasible", "atlb", "atub"}

\* the one-variable branch; onevar is the outcome of SCIPsolveOneVarSDP
solveOneVar(s, onevar) ==
    LET activevaridx == CHOOSE v \in activeVars(s) : TRUE
        done(optval, objval, status) ==
            [s EXCEPT !.solved = TRUE,
                      !.dualslater = "SCIP_SDPSLATER_NOINFO",
                      !.primalslater = "SCIP_SDPSLATER_NOINFO",
                      !.onevarsdpidx = activevaridx,
                      !.solvedonevarsdp = status,
                      !.onevarsdpoptval = optval,
                      !.onevarsdpobjval = objval]
        lb == Rd(s.sdpilb, activevaridx)
        ub == Rd(s.sdpiub, activevaridx)
        obj == Rd(s.obj, activevaridx)
    IN  IF s.nsdpblocks = 0
        THEN IF ~SCIPsdpiIsInfinity(lb) /\ ~SCIPsdpiIsInfinity(ub)
             THEN IF obj >= 0
                  THEN done(lb, obj * lb + fixedvarsobjcontr(s), SCIP_ONEVAR_OPTIMAL)
                  ELSE done(ub, obj * ub + fixedvarsobjcontr(s), SCIP_ONEVAR_OPTIMAL)
             ELSE s
        ELSE CASE onevar = "unsolved" -> s
               [] onevar = "infeasible" ->
                     done(SCIP_INVALID, Infinity, SCIP_ONEVAR_INFEASIBLE)
               [] onevar = "atlb" ->
                     done(lb, obj * lb + fixedvarsobjcontr(s), SCIP_ONEVAR_OPTIMAL)
               [] onevar = "atub" ->
                     done(ub, obj * ub + fixedvarsobjcontr(s), SCIP_ONEVAR_OPTIMAL)

\* SCIPsdpiSolve from its first statement up to its first backend call or,
\* when no backend call is made, up to its return.  exit tells which: the
\* early returns "timelimit", "infeasible", "allfixed", the final return
\* after the one-variable branch "onevar", or "backend".
solveBegin(s, timelimit, onevar) ==
    With(solveReset(s), LAMBDA s0 :
    IF timelimit <= 0 THEN [s |-> s0, exit |-> "timelimit"]
    ELSE
    With(copyBounds(s0, 0), LAMBDA s1 :
    IF s1.infeasible THEN [s |-> infeasibleExit(s1), exit |-> "infeasible"]
    ELSE
    With(prepareLoop(s1).s, LAMBDA s2 :
    IF s2.infeasible THEN [s |-> infeasibleExit(s2), exit |-> "infeasible"]
    ELSE
    With(IF activeVars(s2) = {} THEN [s2 EXCEPT !.allfixed = TRUE] ELSE s2, LAMBDA s3 :
    IF s3.allfixed
    THEN [s |-> infeasibleExit(checkFixedFeasibilitySdp(s3)), exit |-> "allfixed"]
    ELSE
    With(IF Cardinality(activeVars(s3)) = 1 /\ s3.nsdpblocks <= 1
         THEN solveOneVar(s3, onevar) ELSE s3, LAMBDA s4 :
    IF s4.solved THEN [s |-> s4, exit |-> "onevar"]
    ELSE [s |-> findEmptyRowColsSDP(s4, compConstMatAfterFixings(s4)),
          exit |-> "backend"])))))

\* --------------------------------------------------------------- state
\* sdpi          the SCIP_SDPI structure
\* sdpisolver    the backend solver
\* usedsdpitime  the clock of the interface
\* pc            "idle" between calls, else the backend call SCIPsdpiSolve
\*               is about to make
\* loc           the arguments and local variables of the running SCIPsdpiSolve
\* nmutations    the number of mutator calls made so far
\* nsolves       the number of calls of SCIPsdpiSolve made so far
VARIABLES sdpi, sdpisolver, usedsdpitime, pc, loc, nmutations, nsolves

vars == <<sdpi, sdpisolver, usedsdpitime, pc, loc, nmutations, nsolves>>

\* Besides the arguments and locals of the source, loc records of the
\* running call: ncalls, the backend calls made; tlseen, that one of them
\* came back with the time limit exceeded; accseen, that the primary solve
\* or a penalty solve came back acceptable.  After the return it keeps
\* retcode, the value returned, and exit, the place the call left its
\* preprocessing at (see solveBegin).
IdleLoc ==
    [timelimit |-> 0, enforceslatercheck |-> FALSE, rootnodefailed |-> FALSE,
     penaltyparam |-> 0, gaptol |-> 0, feasorig |-> FALSE, penaltybound |-> FALSE,
     ncalls |-> 0, tlseen |-> FALSE, accseen |-> FALSE,
     retcode |-> "SCIP_OKAY", exit |-> "none"]

solveReturn(retcode, exit) == [IdleLoc EXCEPT !.retcode = retcode, !.exit = exit]

\* the end of SCIPsdpiSolve: sdpid++, SDPIclockStop, return
solveFinish(s) ==
    /\ sdpi' = [s EXCEPT !.sdpid = @ + 1]
    /\ usedsdpitime' = SDPIclockStop(usedsdpitime)
    /\ pc' = "idle"
    /\ loc' = solveReturn("SCIP_OKAY", "backend")

\* a SCIP_CALL that fails returns at once
solveAbort ==
    /\ pc' = "idle"
    /\ loc' = solveReturn("SCIP_ERROR", "backend")
    /\ UNCHANGED <<sdpi, sdpisolver, usedsdpitime>>

\* the record of a backend call made by checkSlaterCondition
called(resp) ==
    [loc EXCEPT !.ncalls = @ + 1,
                !.tlseen = @ \/ resp.status = "timelimit"]

\* the record of the primary solve or of a penalty solve
answered(resp) ==
    [called(resp) EXCEPT !.accseen = @ \/ SCIPsdpiSolverIsAcceptable(resp)]

SCIPsdpiSolve(timelimit, enforceslatercheck, onevar) ==
    /\ pc = "idle"
    /\ nsolves < MaxSolves
    /\ nsolves' = nsolves + 1
    /\ UNCHANGED nmutations
    /\ \E r \in {solveBegin(sdpi, timelimit, onevar)} :
           CASE r.exit = "timelimit" ->
                  /\ sdpi' = r.s
                  /\ loc' = solveReturn("SCIP_OKAY", r.exit)
                  /\ UNCHANGED <<usedsdpitime, pc>>
             [] r.exit \in {"infeasible", "allfixed"} ->
                  /\ sdpi' = r.s
                  /\ usedsdpitime' = SDPIclockStop(SDPIclockStart(usedsdpitime))
                  /\ loc' = solveReturn("SCIP_OKAY", r.exit)
                  /\ UNCHANGED pc
             [] r.exit = "onevar" ->
                  /\ sdpi' = [r.s EXCEPT !.sdpid = @ + 1]
                  /\ usedsdpitime' = SDPIclockStop(SDPIclockStart(usedsdpitime))
                  /\ loc' = solveReturn("SCIP_OKAY", r.exit)
                  /\ UNCHANGED pc
             [] r.exit = "backend" ->
                  /\ sdpi' = r.s
                  /\ usedsdpitime' = SDPIclockStart(usedsdpitime)
                  /\ pc' = IF r.s.slatercheck # 0 THEN "slater_dual" ELSE "primary"
                  /\ loc' = [IdleLoc EXCEPT !.timelimit = timelimit,
                                            !.enforceslatercheck = enforceslatercheck,
                                            !.exit = r.exit]
    /\ UNCHANGED sdpisolver

\* checkSlaterCondition, after its calls: back in SCIPsdpiSolve
slaterReturn(s, l) ==
    IF l.rootnodefailed
    THEN solveFinish(s)
    ELSE /\ sdpi' = s
         /\ pc' = "primary"
         /\ loc' = l
         /\ UNCHANGED usedsdpitime

\* checkSlaterCondition: the penalty formulation with objective zero
SlaterDualSolve(resp) ==
    /\ pc = "slater_dual"
    /\ UNCHANGED <<nmutations, nsolves>>
    /\ IF resp.retcode # "SCIP_OKAY" THEN solveAbort
       ELSE LET sv == SCIPsdpiSolverLoadAndSolve(sdpisolver, resp)
                objval == SCIPsdpiSolverGetObjval(sv)
                verdict ==
                    IF SCIPsdpiSolverIsOptimal(sv)
                    THEN IF objval < 0 - sdpi.feastol THEN "SCIP_SDPSLATER_HOLDS"
                         ELSE IF objval < sdpi.feastol THEN "SCIP_SDPSLATER_NOT"
                         ELSE "SCIP_SDPSLATER_INF"
                    ELSE IF SCIPsdpiSolverIsDualUnbounded(sv) THEN "SCIP_SDPSLATER_HOLDS"
                    ELSE IF SCIPsdpiSolverIsDualInfeasible(sv) THEN "SCIP_SDPSLATER_NOT"
                    ELSE "SCIP_SDPSLATER_NOINFO"
                s1 == [sdpi EXCEPT !.dualslater = verdict]
                slaternremovedvarbounds ==
                    Cardinality({v \in 0..(sdpi.nvars - 1) : ~SCIPsdpiIsInfinity(Rd(sdpi.sdpilb, v))})
                    + Cardinality({v \in 0..(sdpi.nvars - 1) : ~SCIPsdpiIsInfinity(Rd(sdpi.sdpiub, v))})
            IN  /\ sdpisolver' = sv
                /\ IF slaternremovedvarbounds = 2 * sdpi.nvars
                   THEN slaterReturn([s1 EXCEPT !.primalslater = "SCIP_SDPSLATER_HOLDS"],
                                     called(resp))
                   ELSE /\ sdpi' = s1
                        /\ pc' = "slater_primal"
                        /\ loc' = called(resp)
                        /\ UNCHANGED usedsdpitime

\* checkSlaterCondition: the problem without variable bounds
SlaterPrimalSolve(resp) ==
    /\ pc = "slater_primal"
    /\ UNCHANGED <<nmutations, nsolves>>
    /\ IF resp.retcode # "SCIP_OKAY" THEN solveAbort
       ELSE LET sv == SCIPsdpiSolverLoadAndSolve(sdpisolver, resp)
                objval == SCIPsdpiSolverGetObjval(sv)
                verdict ==
                    IF SCIPsdpiSolverIsOptimal(sv)
                    THEN IF objval > 0 - sdpi.feastol THEN "SCIP_SDPSLATER_NOT"
                         ELSE "SCIP_SDPSLATER_HOLDS"
                    ELSE IF SCIPsdpiSolverIsDualUnbounded(sv) THEN "SCIP_SDPSLATER_NOT"
                    ELSE IF SCIPsdpiSolverIsPrimalUnbounded(sv) THEN "SCIP_SDPSLATER_HOLDS"
                    ELSE "SCIP_SDPSLATER_NOINFO"
            IN  /\ sdpisolver' = sv
                /\ slaterReturn([sdpi EXCEPT !.primalslater = verdict], called(resp))

\* the primary solve
PrimarySolve(resp) ==
    /\ pc = "primary"
    /\ UNCHANGED <<nmutations, nsolves>>
    /\ IF resp.retcode # "SCIP_OKAY" THEN solveAbort
       ELSE LET sv == SCIPsdpiSolverLoadAndSolve(sdpisolver, resp)
                s1 == [sdpi EXCEPT !.solved = TRUE, !.nsdpcalls = @ + 1]
            IN  /\ sdpisolver' = sv
                /\ IF ~SCIPsdpiSolverIsAcceptable(sv) /\ ~SCIPsdpiSolverIsTimelimExc(sv)
                   THEN /\ sdpi' = s1
                        /\ pc' = "penfeas"
                        /\ loc' = answered(resp)
                        /\ UNCHANGED usedsdpitime
                   ELSE solveFinish(s1)

RECURSIVE Pow(_, _)
Pow(x, n) == IF n = 0 THEN 1 ELSE x * Pow(x, n - 1)

\* pow(r, 1.0 / n); the ratios that occur are exact n-th powers
NthRoot(r, n) == CHOOSE x \in 1..r : Pow(x, n) = r

\* the growth factors, as fractions num / den
penaltyparamfact(s) ==
    IF s.npenaltyincr > 0
    THEN [num |-> NthRoot(s.maxpenaltyparam \div s.penaltyparam, s.npenaltyincr), den |-> 1]
    ELSE [num |-> 2 * s.maxpenaltyparam, den |-> s.penaltyparam]

gaptolfact(s) ==
    IF s.npenaltyincr > 0
    THEN [num |-> 1, den |-> NthRoot(s.gaptol \div MIN_GAPTOL, s.npenaltyincr)]
    ELSE [num |-> MIN_GAPTOL, den |-> 2 * s.gaptol]

Times(x, f) == (x * f.num) \div f.den

\* penaltyLoopCond that asks for an unacceptable result only
penaltyLoopCondUnacceptable(s, sv, l) ==
    /\ ~SCIPsdpiSolverIsAcceptable(sv)
    /\ l.penaltyparam < s.maxpenaltyparam + s.epsilon
    /\ 100 * l.gaptol > 99 * MIN_GAPTOL
    /\ ~SCIPsdpiSolverIsTimelimExc(sv)

\* the condition of the escalation loop
penaltyLoopCond(s, sv, l) ==
    /\ ~SCIPsdpiSolverIsAcceptable(sv) \/ ~l.feasorig
    /\ l.penaltyparam < s.maxpenaltyparam + s.epsilon
    /\ 100 * l.gaptol > 99 * MIN_GAPTOL
    /\ ~SCIPsdpiSolverIsTimelimExc(sv)

\* penaltyLoopNext without the Slater check of a failed call
penaltyLoopNextNoSlater(s, sv, l) ==
    IF penaltyLoopCond(s, sv, l)
    THEN /\ sdpi' = s
         /\ sdpisolver' = sv
         /\ pc' = "penloop"
         /\ loc' = l
         /\ UNCHANGED usedsdpitime
    ELSE LET sv1 == IF l.gaptol > s.gaptol THEN [sv EXCEPT !.gaptol = s.gaptol] ELSE sv
             s1 == IF SCIPsdpiSolverIsAcceptable(sv1) /\ l.feasorig
                   THEN [s EXCEPT !.penalty = TRUE, !.solved = TRUE]
                   ELSE [s EXCEPT !.solved = FALSE, !.penalty = TRUE]
         IN  /\ sdpisolver' = sv1
             /\ solveFinish(s1)

\* SCIPsdpiSolve from the test of the loop condition on: another round of
\* the loop, or the statements after it
penaltyLoopNext(s, sv, l) ==
    IF penaltyLoopCond(s, sv, l)
    THEN /\ sdpi' = s
         /\ sdpisolver' = sv
         /\ pc' = "penloop"
         /\ loc' = l
         /\ UNCHANGED usedsdpitime
    ELSE LET sv1 == IF l.gaptol > s.gaptol THEN [sv EXCEPT !.gaptol = s.gaptol] ELSE sv
             s1 == IF SCIPsdpiSolverIsAcceptable(sv1) /\ l.feasorig
                   THEN [s EXCEPT !.penalty = TRUE, !.solved = TRUE]
                   ELSE [s EXCEPT !.solved = FALSE, !.penalty = TRUE]
         IN  /\ sdpisolver' = sv1
             /\ IF ~s1.solved /\ l.enforceslatercheck
                THEN /\ sdpi' = s1
                     /\ pc' = "slater_dual"
                     /\ loc' = [l EXCEPT !.rootnodefailed = TRUE]
                     /\ UNCHANGED usedsdpitime
                ELSE solveFinish(s1)

\* the values an indeterminate peninfeasadjust can turn out to have
PenInfeasAdjustVals == {0, 1}

\* PenaltyFeasSolve without the test of the optimal slack: only a backend
\* status of dual infeasibility ends the call
PenaltyFeasSolveStatusOnly(resp, adj) ==
    /\ pc = "penfeas"
    /\ UNCHANGED <<nmutations, nsolves>>
    /\ adj \in (IF sdpi.peninfeasadjust = UNINIT THEN PenInfeasAdjustVals
                ELSE {sdpi.peninfeasadjust})
    /\ IF resp.retcode # "SCIP_OKAY" THEN solveAbort
       ELSE LET sv == SCIPsdpiSolverLoadAndSolve(sdpisolver, resp)
                s1 == [sdpi EXCEPT !.nsdpcalls = @ + 1]
            IN  IF SCIPsdpiSolverWasSolved(sv) /\ SCIPsdpiSolverIsDualInfeasible(sv)
                THEN /\ sdpisolver' = sv
                     /\ solveFinish([s1 EXCEPT !.penalty = TRUE, !.infeasible = TRUE])
                ELSE penaltyLoopNext(s1, sv,
                        [answered(resp) EXCEPT !.penaltyparam = s1.penaltyparam,
                                             !.gaptol = s1.gaptol,
                                             !.feasorig = FALSE,
                                             !.penaltybound = TRUE])

\* the penalty formulation with objective zero: is the problem feasible?
PenaltyFeasSolve(resp, adj) ==
    /\ pc = "penfeas"
    /\ UNCHANGED <<nmutations, nsolves>>
    /\ adj \in (IF sdpi.peninfeasadjust = UNINIT THEN PenInfeasAdjustVals
                ELSE {sdpi.peninfeasadjust})
    /\ IF resp.retcode # "SCIP_OKAY" THEN solveAbort
       ELSE LET sv == SCIPsdpiSolverLoadAndSolve(sdpisolver, resp)
                s1 == [sdpi EXCEPT !.nsdpcalls = @ + 1]
                objval == IF SCIPsdpiSolverWasSolved(sv) THEN SCIPsdpiSolverGetObjval(sv)
                          ELSE 0 - SCIPsdpiInfinity
            IN  IF \/ SCIPsdpiSolverIsOptimal(sv) /\ objval > adj * Max(s1.feastol, s1.gaptol)
                   \/ SCIPsdpiSolverWasSolved(sv) /\ SCIPsdpiSolverIsDualInfeasible(sv)
                THEN /\ sdpisolver' = sv
                     /\ solveFinish([s1 EXCEPT !.penalty = TRUE, !.infeasible = TRUE])
                ELSE penaltyLoopNext(s1, sv,
                        [answered(resp) EXCEPT !.penaltyparam = s1.penaltyparam,
                                             !.gaptol = s1.gaptol,
                                             !.feasorig = FALSE,
                                             !.penaltybound = TRUE])

\* PenaltyLoopSolve with the two adjustments for an acceptable result that
\* is infeasible for the original problem exchanged
PenaltyLoopSolveSwapped(resp, feasorig, penaltybound) ==
    /\ pc = "penloop"
    /\ UNCHANGED <<nmutations, nsolves>>
    /\ loc.ncalls < MaxCalls
    /\ IF resp.retcode # "SCIP_OKAY" THEN solveAbort
       ELSE LET sv == SCIPsdpiSolverLoadAndSolve(sdpisolver, resp)
                s1 == [sdpi EXCEPT !.nsdpcalls = @ + 1]
                l1 == [answered(resp) EXCEPT !.feasorig = feasorig,
                                           !.penaltybound = penaltybound]
            IN  IF ~SCIPsdpiSolverIsAcceptable(sv)
                THEN penaltyLoopNext(s1, sv,
                        [l1 EXCEPT !.penaltyparam = Times(@, penaltyparamfact(s1))])
                ELSE LET objbound == SCIPsdpiSolverGetObjval(sv)
                         s2 == IF objbound > s1.bestbound + s1.gaptol
                               THEN [s1 EXCEPT !.bestbound = objbound] ELSE s1
                     IN  IF feasorig THEN penaltyLoopNext(s2, sv, l1)
                         ELSE IF ~penaltybound
                         THEN penaltyLoopNext(s2, sv,
                                 [l1 EXCEPT !.penaltyparam = Times(@, penaltyparamfact(s2))])
                         ELSE penaltyLoopNext(s2,
                                 [sv EXCEPT !.gaptol = Times(l1.gaptol, gaptolfact(s2))],
                                 [l1 EXCEPT !.gaptol = Times(@, gaptolfact(s2))])

\* PenaltyLoopSolve taking every objective value above the best bound
PenaltyLoopSolveAnyImprovement(resp, feasorig, penaltybound) ==
    /\ pc = "penloop"
    /\ UNCHANGED <<nmutations, nsolves>>
    /\ loc.ncalls < MaxCalls
    /\ IF resp.retcode # "SCIP_OKAY" THEN solveAbort
       ELSE LET sv == SCIPsdpiSolverLoadAndSolve(sdpisolver, resp)
                s1 == [sdpi EXCEPT !.nsdpcalls = @ + 1]
                l1 == [answered(resp) EXCEPT !.feasorig = feasorig,
                                           !.penaltybound = penaltybound]
            IN  IF ~SCIPsdpiSolverIsAcceptable(sv)
                THEN penaltyLoopNext(s1, sv,
                        [l1 EXCEPT !.penaltyparam = Times(@, penaltyparamfact(s1))])
                ELSE LET objbound == SCIPsdpiSolverGetObjval(sv)
                         s2 == IF objbound > s1.bestbound
                               THEN [s1 EXCEPT !.bestbound = objbound] ELSE s1
                     IN  IF feasorig THEN penaltyLoopNext(s2, sv, l1)
                         ELSE IF penaltybound
                         THEN penaltyLoopNext(s2, sv,
                                 [l1 EXCEPT !.penaltyparam = Times(@, penaltyparamfact(s2))])
                         ELSE penaltyLoopNext(s2,
                                 [sv EXCEPT !.gaptol = Times(l1.gaptol, gaptolfact(s2))],
                                 [l1 EXCEPT !.gaptol = Times(@, gaptolfact(s2))])

\* one round of the escalation loop; feasorig and penaltybound are the
\* backend's answers
PenaltyLoopSolve(resp, feasorig, penaltybound) ==
    /\ pc = "penloop"
    /\ UNCHANGED <<nmutations, nsolves>>
    /\ loc.ncalls < MaxCalls
    /\ IF resp.retcode # "SCIP_OKAY" THEN solveAbort
       ELSE LET sv == SCIPsdpiSolverLoadAndSolve(sdpisolver, resp)
                s1 == [sdpi EXCEPT !.nsdpcalls = @ + 1]
                l1 == [answered(resp) EXCEPT !.feasorig = feasorig,
                                           !.penaltybound = penaltybound]
            IN  IF ~SCIPsdpiSolverIsAcceptable(sv)
                THEN penaltyLoopNext(s1, sv,
                        [l1 EXCEPT !.penaltyparam = Times(@, penaltyparamfact(s1))])
                ELSE LET objbound == SCIPsdpiSolverGetObjval(sv)
                         s2 == IF objbound > s1.bestbound + s1.gaptol
                               THEN [s1 EXCEPT !.bestbound = objbound] ELSE s1
                     IN  IF feasorig THEN penaltyLoopNext(s2, sv, l1)
                         ELSE IF penaltybound
                         THEN penaltyLoopNext(s2, sv,
                                 [l1 EXCEPT !.penaltyparam = Times(@, penaltyparamfact(s2))])
                         ELSE penaltyLoopNext(s2,
                                 [sv EXCEPT !.gaptol = Times(l1.gaptol, gaptolfact(s2))],
                                 [l1 EXCEPT !.gaptol = Times(@, gaptolfact(s2))])

\* --------------------------------------------------------------- inputs
\* the arguments the callers of the model pass
NoBlocks ==
    [nsdpblocks |-> 0, sdpblocksizes |-> NullArr, sdpnblockvars |-> NullArr,
     sdpconstnnonz |-> 0, sdpconstnblocknonz |-> NullArr,
     sdpconstrow |-> NullArr, sdpconstcol |-> NullArr, sdpconstval |-> NullArr,
     sdpnnonz |-> 0, sdpnblockvarnonz |-> NullArr, sdpvar |-> NullArr,
     sdprow |-> NullArr, sdpcol |-> NullArr, sdpval |-> NullArr]

NoRows ==
    [nlpcons |-> 0, lplhs |-> NullArr, lprhs |-> NullArr, lpnnonz |-> 0,
     lpbeg |-> NullArr, lpind |-> NullArr, lpval |-> NullArr]

\* two variables, no SDP block, no LP row
ProblemLP ==
    [nvars |-> 2, obj |-> Arr(<<1, 0 - 1>>), lb |-> Arr(<<0, 0>>), ub |-> Arr(<<4, 4>>),
     isintegral |-> Arr(<<TRUE, FALSE>>)] @@ NoBlocks @@ NoRows

\* two variables in one 2x2 block  x0*E00 + x1*(E11 + E10) - E00 >= 0
ProblemSDP ==
    [nvars |-> 2, obj |-> Arr(<<1, 1>>), lb |-> Arr(<<0, 0>>), ub |-> Arr(<<4, 4>>),
     isintegral |-> Arr(<<TRUE, FALSE>>),
     nsdpblocks |-> 1, sdpblocksizes |-> Arr(<<2>>), sdpnblockvars |-> Arr(<<2>>),
     sdpconstnnonz |-> 1, sdpconstnblocknonz |-> Arr(<<1>>),
     sdpconstrow |-> Arr(<<Arr(<<0>>)>>), sdpconstcol |-> Arr(<<Arr(<<0>>)>>),
     sdpconstval |-> Arr(<<Arr(<<1>>)>>),
     sdpnnonz |-> 3, sdpnblockvarnonz |-> Arr(<<Arr(<<1, 2>>)>>),
     sdpvar |-> Arr(<<Arr(<<0, 1>>)>>),
     sdprow |-> Arr(<<Arr(<<Arr(<<0>>), Arr(<<1, 1>>)>>)>>),
     sdpcol |-> Arr(<<Arr(<<Arr(<<0>>), Arr(<<1, 0>>)>>)>>),
     sdpval |-> Arr(<<Arr(<<Arr(<<1>>), Arr(<<1, 1>>)>>)>>)] @@ NoRows

\* one variable in one 1x1 block  x0 - 2 >= 0, and the LP row  2 x0 <= 6
ProblemOneVar ==
    [nvars |-> 1, obj |-> Arr(<<1>>), lb |-> Arr(<<0>>), ub |-> Arr(<<4>>),
     isintegral |-> Arr(<<FALSE>>),
     nsdpblocks |-> 1, sdpblocksizes |-> Arr(<<1>>), sdpnblockvars |-> Arr(<<1>>),
     sdpconstnnonz |-> 1, sdpconstnblocknonz |-> Arr(<<1>>),
     sdpconstrow |-> Arr(<<Arr(<<0>>)>>), sdpconstcol |-> Arr(<<Arr(<<0>>)>>),
     sdpconstval |-> Arr(<<Arr(<<2>>)>>),
     sdpnnonz |-> 1, sdpnblockvarnonz |-> Arr(<<Arr(<<1>>)>>),
     sdpvar |-> Arr(<<Arr(<<0>>)>>),
     sdprow |-> Arr(<<Arr(<<Arr(<<0>>)>>)>>),
     sdpcol |-> Arr(<<Arr(<<Arr(<<0>>)>>)>>),
     sdpval |-> Arr(<<Arr(<<Arr(<<1>>)>>)>>),
     nlpcons |-> 1, lplhs |-> Arr(<<0 - Infinity>>), lprhs |-> Arr(<<6>>),
     lpnnonz |-> 1, lpbeg |-> Arr(<<0>>), lpind |-> Arr(<<0>>), lpval |-> Arr(<<2>>)]

Problems == {ProblemLP, ProblemSDP, ProblemOneVar}

\* rows for SCIPsdpiAddLPRows:  2 x0 + 2 x1 >= 2,  2 x0 <= 4,  no row at all
RowPair ==
    [nrows |-> 1, lhs |-> Arr(<<2>>), rhs |-> Arr(<<Infinity>>), nnonz |-> 2,
     beg |-> Arr(<<0>>), ind |-> Arr(<<0, 1>>), val |-> Arr(<<2, 2>>)]

RowSingle ==
    [nrows |-> 1, lhs |-> Arr(<<0 - Infinity>>), rhs |-> Arr(<<4>>), nnonz |-> 1,
     beg |-> Arr(<<0>>), ind |-> Arr(<<0>>), val |-> Arr(<<2>>)]

RowNone ==
    [nrows |-> 0, lhs |-> NullArr, rhs |-> NullArr, nnonz |-> 0,
     beg |-> NullArr, ind |-> NullArr, val |-> NullArr]

RowSets == {RowPair, RowSingle, RowNone}

\* bounds <<lb, ub>> for SCIPsdpiChgBounds: fixed, free, contradictory by
\* more than feastol, contradictory by no more than feastol, unbounded
BoundPairs == {<<0, 0>>, <<0, 4>>, <<4, 0>>, <<2, 0>>, <<0 - Infinity, Infinity>>}

ObjCoefs == {0 - 1, 1}

\* sides <<lhs, rhs>> for SCIPsdpiChgLPLhRhSides
SidePairs == {<<2, Infinity>>, <<12, Infinity>>}

\* what a read of a cell that was never written can yield
JunkVals == {0, 2}

\* ------------------------------------------------------- parameter setters
\* SCIPsdpiSetRealpar, the cases that store into the interface; the gap
\* tolerance is forwarded to the backend as well
SCIPsdpiSetRealpar(s, type, dval) ==
    CASE type = "SCIP_SDPPAR_GAPTOL" -> [s EXCEPT !.gaptol = dval]
      [] type = "SCIP_SDPPAR_PENINFEASADJUST" -> [s EXCEPT !.peninfeasadjust = dval]

SCIPsdpiSetIntpar(s, type, ival) ==
    CASE type = "SCIP_SDPPAR_SLATERCHECK" -> [s EXCEPT !.slatercheck = ival]
      [] type = "SCIP_SDPPAR_NPENALTYINCR" -> [s EXCEPT !.npenaltyincr = ival]

\* maxpenaltyparam is what the backend computed
SCIPsdpiComputeMaxPenaltyparam(s, maxpenaltyparam) ==
    LET s1 == [s EXCEPT !.maxpenaltyparam = maxpenaltyparam]
    IN  IF s1.penaltyparam > maxpenaltyparam
        THEN [s1 EXCEPT !.penaltyparam = maxpenaltyparam]
        ELSE s1

GapTols == {MIN_GAPTOL, DEFAULT_SDPSOLVERGAPTOL}

MaxPenaltyParams == {DEFAULT_PENALTYPARAM, DEFAULT_MAXPENALTYPARAM}

NPenaltyIncrs == {0, 1, 2}

\* ---------------------------------------------------------------- actions
\* every call of the interface is made between two calls of SCIPsdpiSolve
idleStep(s) ==
    /\ pc = "idle"
    /\ sdpi' = s
    /\ UNCHANGED <<sdpisolver, usedsdpitime, pc, loc, nsolves>>

mutationStep(s) ==
    /\ nmutations < MaxMutations
    /\ idleStep(s)
    /\ nmutations' = nmutations + 1

LoadSDP(p) == mutationStep(SCIPsdpiLoadSDP(sdpi, p))

AddLPRows(r) ==
    /\ sdpi.nlpcons + r.nrows <= MaxRows
    /\ \A i \in DOMAIN r.ind : r.ind[i] < sdpi.nvars
    /\ mutationStep(SCIPsdpiAddLPRows(sdpi, r))

DelLPRows(firstrow, lastrow, junk) ==
    /\ 0 <= firstrow /\ firstrow <= lastrow /\ lastrow < sdpi.nlpcons
    /\ mutationStep(SCIPsdpiDelLPRows(sdpi, firstrow, lastrow, junk))

DelLPRowset(dstat, junk) ==
    /\ sdpi.nlpcons > 0
    /\ mutationStep(SCIPsdpiDelLPRowset(sdpi, dstat, junk))

Clear == mutationStep(SCIPsdpiClear(sdpi))

ChgObj(ind, obj) ==
    /\ ind < sdpi.nvars
    /\ mutationStep(SCIPsdpiChgObj(sdpi, ind, obj))

ChgBounds(ind, b) ==
    /\ ind < sdpi.nvars
    /\ mutationStep(SCIPsdpiChgBounds(sdpi, ind, b[1], b[2]))

ChgLPLhRhSides(ind, b) ==
    /\ ind < sdpi.nlpcons
    /\ mutationStep(SCIPsdpiChgLPLhRhSides(sdpi, ind, b[1], b[2]))

configStep(s) == idleStep(s) /\ UNCHANGED nmutations

SetSlatercheck(ival) ==
    configStep(SCIPsdpiSetIntpar(sdpi, "SCIP_SDPPAR_SLATERCHECK", ival))

SetNpenaltyincr(ival) ==
    configStep(SCIPsdpiSetIntpar(sdpi, "SCIP_SDPPAR_NPENALTYINCR", ival))

SetPeninfeasadjust(dval) ==
    configStep(SCIPsdpiSetRealpar(sdpi, "SCIP_SDPPAR_PENINFEASADJUST", dval))

SetGaptol(dval) ==
    /\ pc = "idle"
    /\ sdpi' = SCIPsdpiSetRealpar(sdpi, "SCIP_SDPPAR_GAPTOL", dval)
    /\ sdpisolver' = [sdpisolver EXCEPT !.gaptol = dval]
    /\ UNCHANGED <<usedsdpitime, pc, loc, nmutations, nsolves>>

ComputeMaxPenaltyparam(maxpenaltyparam) ==
    configStep(SCIPsdpiComputeMaxPenaltyparam(sdpi, maxpenaltyparam))

\* The backend outcomes the calls of the general model are answered with:
\* the escalation loop is answered with a failure or with a result that is
\* feasible for the original problem; SolvePenalty answers it in every way.
CoarseResponses ==
    {r \in SolverResponses :
        /\ r.status \notin {"dualinfeasible", "dualunbounded"}
        /\ r.status = "optimal" => r.objval \in {0, 20}}

\* the steps of a call of SCIPsdpiSolve
Solve ==
    \/ \E timelimit \in {0, 1}, enforceslatercheck \in BOOLEAN, onevar \in OneVarOutcomes :
          SCIPsdpiSolve(timelimit, enforceslatercheck, onevar)
    \/ \E resp \in CoarseResponses : SlaterDualSolve(resp)
    \/ \E resp \in CoarseResponses : SlaterPrimalSolve(resp)
    \/ \E resp \in CoarseResponses : PrimarySolve(resp)
    \/ \E resp \in CoarseResponses, adj \in PenInfeasAdjustVals : PenaltyFeasSolve(resp, adj)
    \/ \E resp \in CoarseResponses : PenaltyLoopSolve(resp, TRUE, TRUE)

\* the same without Slater diagnostics and with every backend outcome
SolvePenalty ==
    \/ \E timelimit \in {0, 1} : SCIPsdpiSolve(timelimit, FALSE, "unsolved")
    \/ \E resp \in SolverResponses : PrimarySolve(resp)
    \/ \E resp \in SolverResponses, adj \in PenInfeasAdjustVals \cup {1} :
          PenaltyFeasSolve(resp, adj)
    \/ \E resp \in SolverResponses, feasorig \in BOOLEAN, penaltybound \in BOOLEAN :
          PenaltyLoopSolve(resp, feasorig, penaltybound)

Mutation ==
    \/ \E p \in Problems : LoadSDP(p)
    \/ \E r \in RowSets : AddLPRows(r)
    \/ \E firstrow \in 0..(MaxRows - 1), lastrow \in 0..(MaxRows - 1), junk \in JunkVals :
          DelLPRows(firstrow, lastrow, junk)
    \/ \E dstat \in [0..(sdpi.nlpcons - 1) -> {0, 1}], junk \in JunkVals :
          DelLPRowset(dstat, junk)
    \/ Clear
    \/ \E obj \in ObjCoefs : ChgObj(0, obj)
    \/ \E b \in BoundPairs : ChgBounds(0, b)
    \/ \E ind \in 0..(MaxRows - 1), b \in SidePairs : ChgLPLhRhSides(ind, b)

Init ==
    /\ sdpi = SCIPsdpiCreate(UNINIT)
    /\ sdpisolver = SCIPsdpiSolverCreate
    /\ usedsdpitime = SDPIclockCreate
    /\ pc = "idle"
    /\ loc = IdleLoc
    /\ nmutations = 0
    /\ nsolves = 0

Next ==
    \/ Mutation
    \/ Solve
    \/ nsolves = 0 /\ SetSlatercheck(1)

Spec == Init /\ [][Next]_vars

\* the escalation scheme under every configuration: one problem, all
\* settings of the parameters the scheme reads
InitPenalty ==
    /\ sdpi = SCIPsdpiLoadSDP(SCIPsdpiCreate(UNINIT), ProblemSDP)
    /\ sdpisolver = SCIPsdpiSolverCreate
    /\ usedsdpitime = SDPIclockCreate
    /\ pc = "idle"
    /\ loc = IdleLoc
    /\ nmutations = 0
    /\ nsolves = 0

\* the parameters are set before the first solve
Configure ==
    /\ nsolves = 0
    /\ \/ \E ival \in NPenaltyIncrs : SetNpenaltyincr(ival)
       \/ SetPeninfeasadjust(1)
       \/ \E dval \in GapTols : SetGaptol(dval)
       \/ \E maxpenaltyparam \in MaxPenaltyParams : ComputeMaxPenaltyparam(maxpenaltyparam)

NextPenalty ==
    \/ SolvePenalty
    \/ Configure

SpecPenalty == InitPenalty /\ [][NextPenalty]_vars

\* the preprocessing of SCIPsdpiSolve on every problem of a family: two
\* variables with bounds from PrepBounds, the first integral or not, with or
\* without the SDP block of ProblemSDP, and two LP rows from PrepRows
PrepBounds == {<<0, 4>>, <<1, 1>>, <<0, 2>>, <<2, 4>>, <<4, 4>>}

\* x0 + x1 >= 3,  2 x0 + 2 x1 >= 2,  2 x0 >= 4,  5 x0 + 2 x1 <= 12,
\* -5 x0 - 2 x1 >= -12,  2 x1 <= 4
PrepRows ==
    {[lhs |-> 3, rhs |-> Infinity, ind |-> <<0, 1>>, val |-> <<1, 1>>],
     [lhs |-> 2, rhs |-> Infinity, ind |-> <<0, 1>>, val |-> <<2, 2>>],
     [lhs |-> 4, rhs |-> Infinity, ind |-> <<0>>, val |-> <<2>>],
     [lhs |-> 0 - Infinity, rhs |-> 12, ind |-> <<0, 1>>, val |-> <<5, 2>>],
     [lhs |-> 0 - 12, rhs |-> Infinity, ind |-> <<0, 1>>, val |-> <<0 - 5, 0 - 2>>],
     [lhs |-> 0 - Infinity, rhs |-> 4, ind |-> <<1>>, val |-> <<2>>]}

PrepProblem(b0, b1, int0, blocks, ra, rb) ==
    [nvars |-> 2, obj |-> Arr(<<1, 1>>),
     lb |-> Arr(<<b0[1], b1[1]>>), ub |-> Arr(<<b0[2], b1[2]>>),
     isintegral |-> Arr(<<int0, FALSE>>),
     nlpcons |-> 2, lplhs |-> Arr(<<ra.lhs, rb.lhs>>), lprhs |-> Arr(<<ra.rhs, rb.rhs>>),
     lpnnonz |-> Len(ra.ind) + Len(rb.ind), lpbeg |-> Arr(<<0, Len(ra.ind)>>),
     lpind |-> Arr(ra.ind \o rb.ind), lpval |-> Arr(ra.val \o rb.val)] @@ blocks

PrepProblems ==
    {PrepProblem(b0, b1, int0, blocks, ra, rb) :
        b0 \in PrepBounds, b1 \in PrepBounds, int0 \in BOOLEAN,
        blocks \in {NoBlocks, [f \in DOMAIN NoBlocks |-> ProblemSDP[f]]},
        ra \in PrepRows, rb \in PrepRows}

InitPrep ==
    /\ sdpi \in {SCIPsdpiLoadSDP(SCIPsdpiCreate(UNINIT), p) : p \in PrepProblems}
    /\ sdpisolver = SCIPsdpiSolverCreate
    /\ usedsdpitime = SDPIclockCreate
    /\ pc = "idle"
    /\ loc = IdleLoc
    /\ nmutations = 0
    /\ nsolves = 0

\* the backend answers the primary solve with an optimum or with the time
\* limit, after which SCIPsdpiSolve returns
NextPrep ==
    \/ \E onevar \in OneVarOutcomes : SCIPsdpiSolve(1, FALSE, onevar)
    \/ \E resp \in {r \in CoarseResponses : r.status \in {"optimal", "timelimit"}} :
          PrimarySolve(resp)

SpecPrep == InitPrep /\ [][NextPrep]_vars

\* ------------------------------------------------------------ result queries
\* A query is answered with [retcode, val]: the value it returns or stores
\* through its pointer, and for the functions that return a SCIP_RETCODE
\* that code.  CHECK_IF_SOLVED returns SCIP_LPERROR and leaves the pointer
\* alone; CHECK_IF_SOLVED_BOOL prints its error and returns FALSE, which is
\* the retcode "error printed" here.
SCIPsdpiWasSolved(s) == s.solved

allfixedobjval(s) ==
    SumTo([v \in 0..(s.nvars - 1) |-> Rd(s.sdpilb, v) * Rd(s.obj, v)], s.nvars)

SCIPsdpiIsTimelimExc(s, sv) ==
    [retcode |-> "none",
     val |-> IF s.infeasible THEN FALSE
             ELSE IF s.allfixed THEN FALSE
             ELSE IF ~s.solved THEN FALSE
             ELSE IF s.solvedonevarsdp > SCIP_ONEVAR_UNSOLVED THEN FALSE
             ELSE SCIPsdpiSolverIsTimelimExc(sv)]

SCIPsdpiIsOptimal(s, sv) ==
    IF ~s.solved THEN [retcode |-> "error printed", val |-> FALSE]
    ELSE [retcode |-> "none",
          val |-> IF s.infeasible THEN FALSE
                  ELSE IF s.allfixed THEN TRUE
                  ELSE IF s.solvedonevarsdp = SCIP_ONEVAR_OPTIMAL THEN TRUE
                  ELSE IF s.solvedonevarsdp = SCIP_ONEVAR_INFEASIBLE THEN FALSE
                  ELSE SCIPsdpiSolverIsOptimal(sv)]

SCIPsdpiIsAcceptable(s, sv) ==
    [retcode |-> "none",
     val |-> IF s.infeasible THEN TRUE
             ELSE IF s.allfixed THEN TRUE
             ELSE IF ~s.solved THEN FALSE
             ELSE IF s.solvedonevarsdp > SCIP_ONEVAR_UNSOLVED THEN TRUE
             ELSE SCIPsdpiSolverIsAcceptable(sv)]

\* objval is what the caller's variable held before the call
SCIPsdpiGetObjval(s, sv, objval) ==
    IF ~s.solved THEN [retcode |-> "SCIP_LPERROR", val |-> objval]
    ELSE [retcode |-> "SCIP_OKAY",
          val |-> IF s.infeasible THEN SCIPsdpiInfinity
                  ELSE IF s.allfixed THEN allfixedobjval(s)
                  ELSE IF s.solvedonevarsdp > SCIP_ONEVAR_UNSOLVED THEN s.onevarsdpobjval
                  ELSE SCIPsdpiSolverGetObjval(sv)]

SCIPsdpiGetLowerObjbound(s, sv) ==
    [retcode |-> "SCIP_OKAY",
     val |-> IF s.solved
             THEN IF s.infeasible THEN SCIPsdpiInfinity
                  ELSE IF s.allfixed THEN allfixedobjval(s)
                  ELSE IF s.solvedonevarsdp > SCIP_ONEVAR_UNSOLVED THEN s.onevarsdpobjval
                  ELSE SCIPsdpiSolverGetObjval(sv)
             ELSE IF s.penalty THEN s.bestbound
             ELSE 0 - SCIPsdpiInfinity]

\* used is the setting the backend names for its last solve
SCIPsdpiSettingsUsed(s, used) ==
    [retcode |-> "SCIP_OKAY",
     val |-> IF ~s.solved THEN "SCIP_SDPSOLVERSETTING_UNSOLVED"
             ELSE IF s.infeasible /\ ~s.penalty THEN "SCIP_SDPSOLVERSETTING_UNSOLVED"
             ELSE IF s.allfixed THEN "SCIP_SDPSOLVERSETTING_UNSOLVED"
             ELSE IF s.solvedonevarsdp > SCIP_ONEVAR_UNSOLVED
                  THEN "SCIP_SDPSOLVERSETTING_UNSOLVED"
             ELSE IF s.penalty THEN "SCIP_SDPSOLVERSETTING_PENALTY"
             ELSE used]

SCIPsdpiSlater(s) ==
    [retcode |-> "SCIP_OKAY",
     val |-> IF s.infeasible THEN <<"SCIP_SDPSLATER_NOINFO", s.dualslater>>
             ELSE IF s.allfixed \/ s.solvedonevarsdp > SCIP_ONEVAR_UNSOLVED
                  THEN <<"SCIP_SDPSLATER_NOINFO", "SCIP_SDPSLATER_NOINFO">>
             ELSE <<s.primalslater, s.dualslater>>]

\* ------------------------------------------------------------------ claims
\* the step is a call of a mutator
MutatorCall == nmutations' # nmutations

\* the step is a call of SCIPsdpiSolve that returns within the step, or the
\* last step of one that made backend calls
SolveReturns == pc' = "idle" /\ (pc # "idle" \/ nsolves' # nsolves)

\* C1: after any mutator call (load, add rows, delete rows by range or by
\* mask, change objective, change bounds, change sides, clear) solved is
\* false, whatever the state before the call.
C1_MutatorsInvalidateSolved == [][MutatorCall => ~sdpi'.solved]_vars

\* C2: after any mutator call the infeasible flag, the all-fixed flag and
\* the penalty flag are all false, whatever they were before the call.
C2_MutatorsResetFlags ==
    [][MutatorCall => ~sdpi'.infeasible /\ ~sdpi'.allfixed /\ ~sdpi'.penalty]_vars

\* C3: a call of SCIPsdpiSolve during which neither the primary solve nor a
\* penalty solve came back acceptable, and which did not prove
\* infeasibility, returns with solved false -- also when the primary solve
\* came back with the time limit exceeded.
C3_NoAcceptableResultUnsolved ==
    [][(/\ pc # "idle" /\ pc' = "idle"
        /\ loc'.retcode = "SCIP_OKAY"
        /\ ~loc.accseen
        /\ ~SCIPsdpiSolverIsAcceptable(sdpisolver')
        /\ ~sdpi'.infeasible)
       => ~sdpi'.solved]_vars

\* C4: under every configuration of the penalty parameters and every
\* behaviour of the backend a call of SCIPsdpiSolve makes at most
\* 2 * npenaltyincr + O(1) backend calls; the constant taken is 8, two more
\* than the calls outside the escalation loop can add up to.
C4_PenaltyLoopBounded == loc.ncalls <= 2 * sdpi.npenaltyincr + 8

C6_InfeasibleImpliesSolved ==
    pc = "idle" =>
        /\ sdpi.infeasible => sdpi.solved
        /\ ~sdpi.solved => ~SCIPsdpiIsAcceptable(sdpi, sdpisolver).val

\* C7: while solved is false the result queries are rejected: none of
\* SCIPsdpiGetObjval, SCIPsdpiGetLowerObjbound, SCIPsdpiSettingsUsed and
\* SCIPsdpiSlater returns SCIP_OKAY, and SCIPsdpiIsAcceptable,
\* SCIPsdpiIsTimelimExc and SCIPsdpiIsOptimal report the error.
C7_QueriesRejectedWhileUnsolved ==
    (pc = "idle" /\ ~sdpi.solved) =>
        /\ SCIPsdpiGetObjval(sdpi, sdpisolver, 0).retcode # "SCIP_OKAY"
        /\ SCIPsdpiGetLowerObjbound(sdpi, sdpisolver).retcode # "SCIP_OKAY"
        /\ SCIPsdpiSettingsUsed(sdpi, "SCIP_SDPSOLVERSETTING_FAST").retcode # "SCIP_OKAY"
        /\ SCIPsdpiSlater(sdpi).retcode # "SCIP_OKAY"
        /\ SCIPsdpiIsAcceptable(sdpi, sdpisolver).retcode = "error printed"
        /\ SCIPsdpiIsTimelimExc(sdpi, sdpisolver).retcode = "error printed"
        /\ SCIPsdpiIsOptimal(sdpi, sdpisolver).retcode = "error printed"

\* the problem as the mutators store it: variables, objective, bounds,
\* LP rows and SDP blocks
Problem(s) ==
    [nvars |-> s.nvars, obj |-> s.obj, lb |-> s.lb, ub |-> s.ub,
     isintegral |-> s.isintegral,
     nlpcons |-> s.nlpcons, lpnnonz |-> s.lpnnonz,
     lplhs |-> s.lplhs, lprhs |-> s.lprhs,
     lpbeg |-> s.lpbeg, lpind |-> s.lpind, lpval |-> s.lpval,
     nsdpblocks |-> s.nsdpblocks, sdpblocksizes |-> s.sdpblocksizes,
     sdpnblockvars |-> s.sdpnblockvars,
     sdpconstnnonz |-> s.sdpconstnnonz, sdpconstnblocknonz |-> s.sdpconstnblocknonz,
     sdpconstrow |-> s.sdpconstrow, sdpconstcol |-> s.sdpconstcol,
     sdpconstval |-> s.sdpconstval,
     sdpnnonz |-> s.sdpnnonz, sdpnblockvarnonz |-> s.sdpnblockvarnonz,
     sdpvar |-> s.sdpvar, sdprow |-> s.sdprow, sdpcol |-> s.sdpcol, sdpval |-> s.sdpval]

\* C8: no step of a call of SCIPsdpiSolve changes the stored problem
\* (bounds, objective, LP sides and coefficients, SDP blocks); only the
\* working copies change.
C8_SolveKeepsProblem ==
    [][(nsolves' # nsolves \/ pc # "idle") => Problem(sdpi') = Problem(sdpi)]_vars

\* a solve has returned whose LP pass tightened the working upper bound of
\* variable 0 below the stored one
C8_Witness ==
    /\ pc = "idle" /\ nsolves > 0 /\ sdpi.nvars > 0
    /\ Rd(sdpi.sdpiub, 0) < Rd(sdpi.ub, 0)

\* C9: once a backend call of a solve has come back with the time limit
\* exceeded, the solve makes no further backend call.
C9_NoBackendCallAfterTimelimit == loc.tlseen => pc = "idle"

\* C10: every call of SCIPsdpiSolve that returns has increased sdpid, on
\* every path through the call.
C10_SolveIncreasesSdpid ==
    [][(SolveReturns /\ loc'.retcode = "SCIP_OKAY") => sdpi'.sdpid > sdpi.sdpid]_vars

\* C11: over any sequence of mutations (SCIPsdpiClear included) and solves
\* on one interface, sdpid never decreases.
C11_SdpidNeverDecreases == [][sdpi'.sdpid >= sdpi.sdpid]_vars

\* C12: after any mutator call the rest of the result state is unknown:
\* solvedonevarsdp is SCIP_ONEVAR_UNSOLVED, bestbound is minus infinity (no
\* value of an earlier solve) and both Slater verdicts are NOINFO.
C12_MutatorsResetResultState ==
    [][MutatorCall =>
         /\ sdpi'.solvedonevarsdp = SCIP_ONEVAR_UNSOLVED
         /\ sdpi'.bestbound = 0 - SCIPsdpiInfinity
         /\ sdpi'.primalslater = "SCIP_SDPSLATER_NOINFO"
         /\ sdpi'.dualslater = "SCIP_SDPSLATER_NOINFO"]_vars

\* C13: a call of SCIPsdpiSolve that aborts with an error return leaves
\* solved false and infeasible false.
C13_AbortedSolveExposesNothing ==
    [][(pc # "idle" /\ pc' = "idle" /\ loc'.retcode # "SCIP_OKAY")
       => ~sdpi'.solved /\ ~sdpi'.infeasible]_vars

\* the do-while loop of SCIPsdpiSolve has ended at s without infeasibility:
\* what one more call of prepareLPData makes of it
secondPassSame(s) ==
    With(prepareLPData(s), LAMBDA w :
        /\ w.s.sdpilb = s.sdpilb
        /\ w.s.sdpiub = s.sdpiub
        /\ w.s.sdpilpindchanges = s.sdpilpindchanges
        /\ ~w.fixingsfound
        /\ ~w.s.infeasible)

\* C14: when the preprocessing loop of a solve ends without infeasibility,
\* one more LP pass on the resulting working bounds gives the same working
\* bounds, the same removed-row map and finds no fixing.
C14_PreprocessingIdempotent ==
    [][(nsolves' # nsolves /\ loc'.exit \in {"allfixed", "onevar", "backend"})
       => secondPassSame(sdpi')]_vars

\* the preprocessing SCIPsdpiSolve applies to the problem of s:
\* [s, sdpilpnnonz, fixingsfound]
preprocessed(s) == prepareLoop(copyBounds(solveReset(s), 0))

\* the points within the working bounds of s, the coordinates in the range
\* of the bounds of PrepBounds
Points(s) ==
    {x \in [0..(s.nvars - 1) -> 0..4] :
        \A v \in 0..(s.nvars - 1) : Rd(s.sdpilb, v) <= x[v] /\ x[v] <= Rd(s.sdpiub, v)}

\* the entries of row i in sdpilpind and sdpilpval end where the next row begins
storedRowEntries(w, i) ==
    Rd(w.s.sdpilpbeg, i)..
        ((IF i = w.s.nlpcons - 1 THEN w.sdpilpnnonz ELSE Rd(w.s.sdpilpbeg, i + 1)) - 1)

\* x satisfies row i as the preprocessing stored it
storedRowHolds(w, i, x) ==
    With(SumTo([k \in 0..(w.sdpilpnnonz - 1) |->
                   IF k \in storedRowEntries(w, i)
                   THEN Rd(w.s.sdpilpval, k) * x[Rd(w.s.sdpilpind, k)] ELSE 0],
               w.sdpilpnnonz), LAMBDA act :
        /\ Rd(w.s.sdpilplhs, i) <= 0 - Infinity \/ act >= Rd(w.s.sdpilplhs, i)
        /\ Rd(w.s.sdpilprhs, i) >= Infinity \/ act <= Rd(w.s.sdpilprhs, i))

\* the entries of row i of the problem
rowEntries(s, i) ==
    Rd(s.lpbeg, i)..((IF i = s.nlpcons - 1 THEN s.lpnnonz ELSE Rd(s.lpbeg, i + 1)) - 1)

\* x satisfies row i of the problem, the fixed variables at their values
residualRowHolds(s, i, x) ==
    With(SumTo([j \in 0..(s.lpnnonz - 1) |->
                   IF j \in rowEntries(s, i)
                   THEN Rd(s.lpval, j) * (IF isFixed(s, Rd(s.lpind, j))
                                          THEN Rd(s.sdpilb, Rd(s.lpind, j))
                                          ELSE x[Rd(s.lpind, j)])
                   ELSE 0], s.lpnnonz), LAMBDA act :
        /\ Rd(s.lplhs, i) <= 0 - Infinity \/ act >= Rd(s.lplhs, i)
        /\ Rd(s.lprhs, i) >= Infinity \/ act <= Rd(s.lprhs, i))

\* row i is kept with coefficients or sides other than those of the problem
rowTightened(w, i) ==
    /\ Rd(w.s.sdpilpindchanges, i) >= 0
    /\ \/ [k \in storedRowEntries(w, i) |-> <<Rd(w.s.sdpilpind, k), Rd(w.s.sdpilpval, k)>>]
          # [k \in storedRowEntries(w, i) |->
               <<Rd(w.s.lpind, Rd(w.s.lpbeg, i) + k - Rd(w.s.sdpilpbeg, i)),
                 Rd(w.s.lpval, Rd(w.s.lpbeg, i) + k - Rd(w.s.sdpilpbeg, i))>>]
       \/ Cardinality(storedRowEntries(w, i)) # Cardinality(rowEntries(w.s, i))
       \/ Rd(w.s.sdpilplhs, i) # Rd(w.s.lplhs, i)
       \/ Rd(w.s.sdpilprhs, i) # Rd(w.s.lprhs, i)

tightenedRowsSafe(w) ==
    \A i \in 0..(w.s.nlpcons - 1) :
        rowTightened(w, i) =>
            \A x \in Points(w.s) : storedRowHolds(w, i, x) <=> residualRowHolds(w.s, i, x)

\* C15: after the preprocessing of a solve, every point within the working
\* bounds satisfies a tightened row as stored exactly when it satisfies the
\* row of the problem with the fixed variables at their values.
C15_TightenedRowsSafe ==
    [][(nsolves' # nsolves /\ loc'.exit \in {"allfixed", "onevar", "backend"})
       => tightenedRowsSafe(preprocessed(sdpi))]_vars

\* the entry (r, c), r >= c, of -(constant matrix) + sum over the variables
\* of block b of (fixed value x variable matrix)
fixedMatrixEntry(s, b, r, c) ==
    (0 - constEntry(s, b, r, c))
    + SumTo([v \in 0..(s.sdpnblockvars[b] - 1) |->
               Rd(s.sdpilb, s.sdpvar[b][v]) * varEntry(s, b, v, r, c)],
            s.sdpnblockvars[b])

\* the smallest eigenvalue of the symmetric matrix ((a, b), (b, d)),
\* (a + d - sqrt((a - d)^2 + 4 b^2)) / 2, is below t
minEigenvalueBelow(a, b, d, t) ==
    \/ a + d - 2 * t < 0
    \/ (a + d - 2 * t) * (a + d - 2 * t) < (a - d) * (a - d) + 4 * b * b

\* the fixed matrix of block b has an eigenvalue below -feastol
blockBelowFeastol(s, b) ==
    IF s.sdpblocksizes[b] = 1
    THEN fixedMatrixEntry(s, b, 0, 0) < 0 - s.feastol
    ELSE minEigenvalueBelow(fixedMatrixEntry(s, b, 0, 0), fixedMatrixEntry(s, b, 1, 0),
                            fixedMatrixEntry(s, b, 1, 1), 0 - s.feastol)

\* C16: a solve that finds every variable fixed, the LP pass not having
\* declared the problem infeasible, sets infeasible exactly when for some
\* SDP block the smallest eigenvalue of -(constant matrix) + sum of (fixed
\* value x variable matrix) is below -feastol.
C16_AllFixedCheckSound ==
    [][(nsolves' # nsolves /\ loc'.exit = "allfixed")
       => (sdpi'.infeasible
             <=> \E b \in 0..(sdpi'.nsdpblocks - 1) : blockBelowFeastol(sdpi', b))]_vars

\* an all-fixed solve whose SDP block has an eigenvalue below -feastol
C16_Witness ==
    /\ loc.exit = "allfixed"
    /\ sdpi.allfixed
    /\ sdpi.nsdpblocks > 0
    /\ sdpi.infeasible
    /\ blockBelowFeastol(sdpi, 0)

\* ---- SCIPsdpiGetPrimalLPSides
SCIPsdpiSolverIsPrimalInfeasible(sv) == sv.status = "dualunbounded"

\* what SCIPsdpiSolverGetPrimalLPSides and SCIPsdpiSolverGetPrimalBoundVars
\* can hand back for the problem of s, the multipliers of the bounds 0 or 3
PrimalAnswers(s) ==
    [retcode : {"SCIP_OKAY", "SCIP_ERROR"},
     sdpilhsvals : [0..(s.nlpcons - 1) -> {3}],
     sdpirhsvals : [0..(s.nlpcons - 1) -> {3}],
     sdpilbvals : [0..(s.nvars - 1) -> {0, 3}],
     sdpiubvals : [0..(s.nvars - 1) -> {0, 3}]]

\* SCIPsdpiGetPrimalLPSides, the loop over the variables i..nvars-1: the rows
\* recorded as the source of a working bound get the multiplier of the bound
RECURSIVE primalSidesOfBounds(_, _, _, _)
primalSidesOfBounds(s, ans, i, out) ==
    IF i >= s.nvars THEN out
    ELSE With(Rd(s.sdpilbrowidx, i), LAMBDA lbidx :
         With(Rd(s.sdpiubrowidx, i), LAMBDA ubidx :
         With(IF lbidx = 0 THEN out
              ELSE IF lbidx > 0
              THEN [out EXCEPT !.rhsvals = Wr(@, lbidx - 1, ans.sdpilbvals[i])]
              ELSE [out EXCEPT !.lhsvals = Wr(@, 0 - lbidx - 1, ans.sdpilbvals[i])],
              LAMBDA out1 :
             primalSidesOfBounds(s, ans, i + 1,
                 IF ubidx = 0 THEN out1
                 ELSE IF ubidx > 0
                 THEN [out1 EXCEPT !.rhsvals = Wr(@, ubidx - 1, ans.sdpiubvals[i])]
                 ELSE [out1 EXCEPT !.lhsvals = Wr(@, 0 - ubidx - 1, ans.sdpiubvals[i])]))))

\* result: [success, lhsvals, rhsvals]; arrays the call does not write keep
\* the content the caller passed, UNINIT here
SCIPsdpiGetPrimalLPSides(s, sv, ans) ==
    With([i \in 0..(s.nlpcons - 1) |-> UNINIT], LAMBDA given :
    With([i \in 0..(s.nlpcons - 1) |-> 0], LAMBDA zero :
        IF ~s.solved THEN [success |-> FALSE, lhsvals |-> given, rhsvals |-> given]
        ELSE IF s.allfixed THEN [success |-> TRUE, lhsvals |-> zero, rhsvals |-> zero]
        ELSE IF s.infeasible THEN [success |-> FALSE, lhsvals |-> given, rhsvals |-> given]
        ELSE IF s.solvedonevarsdp > SCIP_ONEVAR_UNSOLVED
        THEN [success |-> TRUE, lhsvals |-> zero, rhsvals |-> zero]
        ELSE IF SCIPsdpiSolverIsPrimalInfeasible(sv)
        THEN [success |-> FALSE, lhsvals |-> given, rhsvals |-> given]
        ELSE IF ans.retcode # "SCIP_OKAY"
        THEN [success |-> FALSE, lhsvals |-> given, rhsvals |-> given]
        ELSE With(primalSidesOfBounds(s, ans, 0,
                      [success |-> TRUE, lhsvals |-> zero, rhsvals |-> zero]), LAMBDA out :
                 [success |-> TRUE,
                  lhsvals |-> [i \in 0..(s.nlpcons - 1) |->
                                  IF Rd(s.sdpilpindchanges, i) >= 0
                                  THEN ans.sdpilhsvals[i] ELSE out.lhsvals[i]],
                  rhsvals |-> [i \in 0..(s.nlpcons - 1) |->
                                  IF Rd(s.sdpilpindchanges, i) >= 0
                                  THEN ans.sdpirhsvals[i] ELSE out.rhsvals[i]]])))

\* C17: once a solve that called the backend has returned, the multipliers
\* SCIPsdpiGetPrimalLPSides returns for the rows the preprocessing eliminated
\* are zero on both sides, whatever the backend reports.
C17_EliminatedRowsZeroMultipliers ==
    (pc = "idle" /\ loc.exit = "backend" /\ loc.retcode = "SCIP_OKAY")
    => \A ans \in PrimalAnswers(sdpi) :
          With(SCIPsdpiGetPrimalLPSides(sdpi, sdpisolver, ans), LAMBDA r :
              r.success =>
                  \A i \in 0..(sdpi.nlpcons - 1) :
                      Rd(sdpi.sdpilpindchanges, i) < 0
                      => r.lhsvals[i] = 0 /\ r.rhsvals[i] = 0)

\* row i of the problem is  x_j + x_k >= 3  without a finite right-hand side,
\* x_k fixed to 1 and x_j free with a lower bound below 2
scenarioRow(s, i, j, k) ==
    /\ j # k
    /\ Cardinality(rowEntries(s, i)) = 2
    /\ {Rd(s.lpind, p) : p \in rowEntries(s, i)} = {j, k}
    /\ \A p \in rowEntries(s, i) : Rd(s.lpval, p) = 1
    /\ Rd(s.lplhs, i) = 3
    /\ Rd(s.lprhs, i) >= Infinity
    /\ Rd(s.lb, k) = 1 /\ Rd(s.ub, k) = 1
    /\ Rd(s.lb, j) < 2
    /\ Rd(s.ub, j) - Rd(s.lb, j) > s.epsilon

\* C18: a solve of a problem with the row x_j + x_k >= 3, x_k fixed to 1 and
\* x_j free with a lower bound below 2, removes the row from the active LP
\* rows and leaves the working lower bound of x_j at 2.
C18_FixedVariableFoldedIntoBound ==
    [][(nsolves' # nsolves /\ loc'.exit # "timelimit")
       => \A i \in 0..(sdpi.nlpcons - 1) : \A j, k \in 0..(sdpi.nvars - 1) :
             scenarioRow(sdpi, i, j, k)
             => /\ Rd(sdpi'.sdpilpindchanges, i) < 0
                /\ Rd(sdpi'.sdpilb, j) = 2]_vars

\* a solve has folded the row of the scenario into the bound x_0 >= 2
C18_Witness ==
    /\ nsolves > 0
    /\ loc.exit # "timelimit"
    /\ \E i \in 0..(sdpi.nlpcons - 1) :
          /\ scenarioRow(sdpi, i, 0, 1)
          /\ Rd(sdpi.sdpilpindchanges, i) < 0
          /\ Rd(sdpi.sdpilbrowidx, 0) = 0 - i - 1
    /\ Rd(sdpi.sdpilb, 0) = 2

\* the outcomes of the preprocessing and fast-path stage the flags of s show
stageOutcomes(s) ==
    {o \in {"infeasible", "allfixed", "onevar", "backend"} :
        CASE o = "infeasible" -> s.solved /\ s.infeasible /\ ~s.allfixed
          [] o = "allfixed" -> s.solved /\ s.allfixed
          [] o = "onevar" -> s.solved /\ s.solvedonevarsdp > SCIP_ONEVAR_UNSOLVED
          [] o = "backend" -> ~s.solved}

C20_OneAdjustmentPerRound ==
    [][pc = "penloop" =>
         /\ pc' = "penloop" =>
               With(SCIPsdpiSolverIsAcceptable(sdpisolver'), LAMBDA acc :
                   /\ ~(acc /\ loc'.feasorig)
                   /\ (~acc \/ loc'.penaltybound) =>
                         /\ loc'.penaltyparam * penaltyparamfact(sdpi).den
                               = loc.penaltyparam * penaltyparamfact(sdpi).num
                         /\ loc'.gaptol = loc.gaptol
                         /\ sdpisolver'.gaptol = sdpisolver.gaptol
                   /\ (acc /\ ~loc'.penaltybound) =>
                         /\ loc'.gaptol * gaptolfact(sdpi).den
                               = loc.gaptol * gaptolfact(sdpi).num
                         /\ sdpisolver'.gaptol = loc'.gaptol
                         /\ loc'.penaltyparam = loc.penaltyparam)
         /\ (pc' = "idle" /\ loc'.retcode = "SCIP_OKAY" /\ sdpi'.solved) =>
               /\ SCIPsdpiSolverIsAcceptable(sdpisolver')
               /\ sdpisolver'.gaptol = sdpisolver.gaptol]_vars

\* the loop goes on after a round that shrank the gap tolerance, and the
\* penalty parameter was raised in an earlier round
C20_Witness ==
    /\ pc = "penloop"
    /\ loc.ncalls >= 4
    /\ loc.gaptol < sdpi.gaptol
    /\ loc.penaltyparam > sdpi.penaltyparam
    /\ sdpisolver.gaptol = loc.gaptol

\* the values penaltyparam and gaptol have when a step leaves the escalation:
\* those of the interface when the loop is never entered; else the backend's
\* gap tolerance, which every shrinking sets, and the penalty parameter,
\* which grew in the round unless the gap tolerance was shrunk
penaltyExitValues ==
    IF pc = "penfeas"
    THEN [penaltyparam |-> sdpi.penaltyparam, gaptol |-> sdpi.gaptol]
    ELSE [penaltyparam |-> IF sdpisolver'.gaptol # sdpisolver.gaptol
                           THEN loc.penaltyparam
                           ELSE Times(loc.penaltyparam, penaltyparamfact(sdpi)),
          gaptol |-> sdpisolver'.gaptol]

\* a step that ends the escalation in the failed state without the time
\* limit having been hit
failedExitStep ==
    /\ pc \in {"penfeas", "penloop"}
    /\ pc' # "penloop"
    /\ ~sdpi'.solved
    /\ sdpi'.penalty
    /\ ~SCIPsdpiSolverIsTimelimExc(sdpisolver')

\* C21 as stated: when the escalation ends in the failed state without the
\* time limit hit, the penalty parameter has passed its maximum and the gap
\* tolerance has passed its floor.
C21_FailedMeansBothExhausted ==
    [][failedExitStep =>
         /\ penaltyExitValues.penaltyparam >= sdpi.maxpenaltyparam + sdpi.epsilon
         /\ 100 * penaltyExitValues.gaptol <= 99 * MIN_GAPTOL]_vars

\* C21, amended: when the escalation ends in the failed state without the
\* time limit hit, the penalty parameter has passed its maximum or the gap
\* tolerance has passed its floor.
C21_FailedMeansOneExhausted ==
    [][failedExitStep =>
         \/ penaltyExitValues.penaltyparam >= sdpi.maxpenaltyparam + sdpi.epsilon
         \/ 100 * penaltyExitValues.gaptol <= 99 * MIN_GAPTOL]_vars

\* the escalation has failed after rounds that raised the penalty parameter,
\* the gap tolerance still above its floor
C21_Witness ==
    /\ pc = "idle"
    /\ loc.exit = "backend"
    /\ loc.retcode = "SCIP_OKAY"
    /\ ~sdpi.solved
    /\ sdpi.penalty
    /\ sdpi.nsdpcalls >= 3
    /\ ~SCIPsdpiSolverIsTimelimExc(sdpisolver)
    /\ 100 * sdpisolver.gaptol > 99 * MIN_GAPTOL

\* C22: when the backend's answer to the penalty feasibility solve is optimal
\* with a slack above peninfeasadjust * max(feastol, gaptol) (above it for
\* every value an unassigned peninfeasadjust can have), the call returns with
\* solved, infeasible and penalty set and the escalation loop is not entered.
C22_PositiveSlackProvesInfeasible ==
    [][(/\ pc = "penfeas"
        /\ loc'.retcode = "SCIP_OKAY"
        /\ SCIPsdpiSolverIsOptimal(sdpisolver')
        /\ \A adj \in (IF sdpi.peninfeasadjust = UNINIT THEN PenInfeasAdjustVals
                       ELSE {sdpi.peninfeasadjust}) :
              SCIPsdpiSolverGetObjval(sdpisolver') > adj * Max(sdpi.feastol, sdpi.gaptol))
       => /\ pc' = "idle"
          /\ sdpi'.solved
          /\ sdpi'.infeasible
          /\ sdpi'.penalty
          /\ sdpi'.nsdpcalls = sdpi.nsdpcalls + 1]_vars

\* a call has returned after the penalty feasibility solve found an optimal
\* slack above the tolerance, with the tolerance factor configured
C22_Witness ==
    /\ pc = "idle"
    /\ loc.exit = "backend"
    /\ loc.retcode = "SCIP_OKAY"
    /\ sdpi.peninfeasadjust = 1
    /\ sdpi.solved
    /\ sdpi.infeasible
    /\ sdpi.penalty
    /\ sdpi.nsdpcalls = 2
    /\ SCIPsdpiSolverIsOptimal(sdpisolver)
    /\ SCIPsdpiSolverGetObjval(sdpisolver) > Max(sdpi.feastol, sdpi.gaptol)

\* a round of the escalation loop whose backend call came back acceptable
acceptablePenaltyRound ==
    /\ pc = "penloop"
    /\ sdpi'.nsdpcalls = sdpi.nsdpcalls + 1
    /\ SCIPsdpiSolverIsAcceptable(sdpisolver')

\* C23 as stated: after an acceptable round of the escalation loop with
\* objective value v the best bound is the maximum of its value before the
\* round and v.
C23_BestboundIsMaximum ==
    [][acceptablePenaltyRound =>
         sdpi'.bestbound = Max(sdpi.bestbound, SCIPsdpiSolverGetObjval(sdpisolver'))]_vars

\* C23, amended: after an acceptable round of the escalation loop with
\* objective value v the best bound is v if v exceeds its value before the
\* round by more than gaptol, and is unchanged otherwise; no step of a
\* running call decreases it.
C23_BestboundUpdatedBeyondGaptol ==
    [][/\ acceptablePenaltyRound =>
            sdpi'.bestbound =
                IF SCIPsdpiSolverGetObjval(sdpisolver') > sdpi.bestbound + sdpi.gaptol
                THEN SCIPsdpiSolverGetObjval(sdpisolver')
                ELSE sdpi.bestbound
       /\ pc # "idle" => sdpi'.bestbound >= sdpi.bestbound]_vars

\* after at least two rounds of the escalation loop the best bound is the
\* objective value of an acceptable round
C23_Witness ==
    /\ pc = "penloop"
    /\ sdpi.nsdpcalls >= 4
    /\ SCIPsdpiSolverIsAcceptable(sdpisolver)
    /\ sdpi.bestbound = SCIPsdpiSolverGetObjval(sdpisolver)
    /\ sdpi.bestbound = 20

\* the results of the calls of prepareLPData the do-while loop of
\* SCIPsdpiSolve makes from s on, in their order
RECURSIVE preparePasses(_)
preparePasses(s) ==
    With(prepareLPData(s), LAMBDA w :
        IF w.fixingsfound /\ ~w.s.infeasible THEN <<w>> \o preparePasses(w.s) ELSE <<w>>)

\* C24: in a solve call that reaches the preprocessing loop, the LP pass runs
\* at most nvars + 1 times; every pass but the last has fixed a variable that
\* was free before it and has not declared infeasibility; the last pass has
\* found no fixing or has declared infeasibility, and its result is the
\* loop's.
C24_PreprocessingLoopTerminates ==
    [][nsolves' # nsolves =>
         With(copyBounds(solveReset(sdpi), 0), LAMBDA s1 :
         With(IF s1.infeasible THEN <<>> ELSE preparePasses(s1), LAMBDA p :
             ~s1.infeasible =>
                /\ Len(p) >= 1
                /\ Len(p) <= s1.nvars + 1
                /\ \A k \in 1..(Len(p) - 1) :
                      /\ p[k].fixingsfound
                      /\ ~p[k].s.infeasible
                      /\ activeVars(p[k].s) # activeVars(IF k = 1 THEN s1 ELSE p[k - 1].s)
                      /\ activeVars(p[k].s) \subseteq
                            activeVars(IF k = 1 THEN s1 ELSE p[k - 1].s)
                /\ ~p[Len(p)].fixingsfound \/ p[Len(p)].s.infeasible
                /\ p[Len(p)] = prepareLoop(s1)))]_vars

\* a solve call has returned or reached the backend after an LP pass that
\* fixed a variable with distinct original bounds, so that the pass was
\* repeated
C24_Witness ==
    /\ nsolves = 1
    /\ loc.exit \in {"allfixed", "onevar", "backend"} \/ pc = "primary"
    /\ ~sdpi.infeasible
    /\ \E v \in 0..(sdpi.nvars - 1) :
          /\ Rd(sdpi.sdpilb, v) = Rd(sdpi.sdpiub, v)
          /\ Rd(sdpi.lb, v) < Rd(sdpi.ub, v) - sdpi.epsilon
    /\ Len(preparePasses(copyBounds(solveReset(sdpi), 0))) >= 2

\* C25: when a solve call ends because a row with one free variable moved a
\* working bound of variable v and left sdpilb[v], sdpiub[v] contradictory,
\* the working lower bound exceeds the working upper bound by more than
\* feastol; and working bounds contradictory by more than feastol after such
\* a row always end the call as infeasible.
C25_SingletonInfeasibleBeyondFeastol ==
    [][nsolves' # nsolves =>
         \A v \in 0..(sdpi'.nvars - 1) :
            (/\ Rd(sdpi'.sdpilb, v) # Rd(sdpi'.lb, v) \/ Rd(sdpi'.sdpiub, v) # Rd(sdpi'.ub, v)
             /\ Rd(sdpi'.sdpilb, v) > Rd(sdpi'.sdpiub, v))
            => (loc'.exit = "infeasible" /\ sdpi'.infeasible
                  <=> Rd(sdpi'.sdpilb, v) > Rd(sdpi'.sdpiub, v) + sdpi'.feastol)]_vars

\* C26: when a solve call has passed its preprocessing without declaring
\* infeasibility, the working bounds the fixedness tests of the call read
\* satisfy the assertion of isFixed, sdpilb[v] <= sdpiub[v] + epsilon, for
\* every variable.
C26_FixedTestAssertionHolds ==
    [][(nsolves' # nsolves /\ loc'.exit \in {"allfixed", "onevar", "backend"})
       => \A v \in 0..(sdpi'.nvars - 1) : isFixedAssert(sdpi', v)]_vars

\* C27: when a solve call enters the one-variable branch (one variable is
\* free after the preprocessing loop and there is at most one SDP block), no
\* LP row is active: nactivelpcons = 0.
C27_OneVarPathHasNoActiveRow ==
    [][(/\ nsolves' # nsolves
        /\ loc'.exit \in {"onevar", "backend"}
        /\ Cardinality(activeVars(sdpi')) = 1
        /\ sdpi'.nsdpblocks <= 1)
       => sdpi'.nactivelpcons = 0]_vars

\* the deletion of LP rows on every problem of the family of SpecPrep, each
\* with two rows
NextRows ==
    \E firstrow \in 0..(MaxRows - 1), lastrow \in 0..(MaxRows - 1), junk \in JunkVals :
        DelLPRows(firstrow, lastrow, junk)

SpecRows == InitPrep /\ [][NextRows]_vars

\* C28: SCIPsdpiDelLPRows(firstrow, lastrow) leaves the rows outside the
\* range in their order, each with its sides and, read through lpbeg, its
\* column indices and coefficients; nlpcons drops by the number of rows
\* deleted and lpnnonz by the number of their entries; and the result does
\* not depend on the content of a cell behind the stored rows.
C28_DelLPRowsKeepsOtherRows ==
    [][\A firstrow \in 0..(MaxRows - 1), lastrow \in 0..(MaxRows - 1), junk \in JunkVals :
          DelLPRows(firstrow, lastrow, junk) =>
             LET rowView(s, i) ==
                     [lhs |-> Rd(s.lplhs, i), rhs |-> Rd(s.lprhs, i),
                      entries |-> [k \in 0..(Cardinality(rowEntries(s, i)) - 1) |->
                                      <<Rd(s.lpind, Rd(s.lpbeg, i) + k),
                                        Rd(s.lpval, Rd(s.lpbeg, i) + k)>>]]
                 deletedrows == lastrow - firstrow + 1
             IN  /\ sdpi'.nlpcons = sdpi.nlpcons - deletedrows
                 /\ \A i \in 0..(sdpi'.nlpcons - 1) :
                       rowView(sdpi', i) =
                          rowView(sdpi, IF i < firstrow THEN i ELSE i + deletedrows)
                 /\ sdpi'.lpnnonz = sdpi.lpnnonz
                       - SumTo([i \in 0..(sdpi.nlpcons - 1) |->
                                   IF firstrow <= i /\ i <= lastrow
                                   THEN Cardinality(rowEntries(sdpi, i)) ELSE 0],
                               sdpi.nlpcons)
                 /\ \A other \in JunkVals :
                       SCIPsdpiDelLPRows(sdpi, firstrow, lastrow, other) = sdpi']_vars

\* C29: when a solve call returns after rounds of the escalation loop, the
\* gap tolerance set in the backend is the gap tolerance of the interface.
C29_BackendGaptolRestored ==
    [][(pc = "penloop" /\ pc' = "idle" /\ loc'.retcode = "SCIP_OKAY")
       => sdpisolver'.gaptol = sdpi'.gaptol]_vars

\* C30: the clock of the interface is never started while it runs and never
\* stopped while it is stopped, and it does not run between calls of
\* SCIPsdpiSolve: nruns is 0 or 1, and 0 whenever no call is running.
C30_ClockStartStopPaired ==
    /\ usedsdpitime.nruns \in {0, 1}
    /\ pc = "idle" => usedsdpitime.nruns = 0

\* C31: when the preprocessing of a solve call ends without infeasibility,
\* a variable whose working bound is tighter than its original bound has in
\* sdpilbrowidx (sdpiubrowidx) the entry +(i+1) or -(i+1) of an LP row i,
\* and a variable whose working bound is its original bound has the entry 0.
C31_TightenedBoundsHaveProvenance ==
    [][(nsolves' # nsolves /\ loc'.exit \in {"allfixed", "onevar", "backend"})
       => \A v \in 0..(sdpi'.nvars - 1) :
             /\ IF Rd(sdpi'.sdpilb, v) > Rd(sdpi'.lb, v)
                THEN Abs(Rd(sdpi'.sdpilbrowidx, v)) \in 1..sdpi'.nlpcons
                ELSE Rd(sdpi'.sdpilbrowidx, v) = 0
             /\ IF Rd(sdpi'.sdpiub, v) < Rd(sdpi'.ub, v)
                THEN Abs(Rd(sdpi'.sdpiubrowidx, v)) \in 1..sdpi'.nlpcons
                ELSE Rd(sdpi'.sdpiubrowidx, v) = 0]_vars

\* the preprocessing on problems whose first LP row has no coefficient:
\* 0 >= 4, 0 >= 2 and 0 <= -4, the second row one of these or of PrepRows
InitEmptyRows ==
    /\ sdpi \in {SCIPsdpiLoadSDP(SCIPsdpiCreate(UNINIT),
                                 PrepProblem(b0, b1, int0, blocks, ra, rb)) :
                    b0 \in PrepBounds, b1 \in PrepBounds, int0 \in BOOLEAN,
                    blocks \in {NoBlocks, [f \in DOMAIN NoBlocks |-> ProblemSDP[f]]},
                    ra \in {[lhs |-> 4, rhs |-> Infinity, ind |-> <<>>, val |-> <<>>],
                            [lhs |-> 2, rhs |-> Infinity, ind |-> <<>>, val |-> <<>>],
                            [lhs |-> 0 - Infinity, rhs |-> 0 - 4, ind |-> <<>>, val |-> <<>>]},
                    rb \in PrepRows \cup
                           {[lhs |-> 4, rhs |-> Infinity, ind |-> <<>>, val |-> <<>>],
                            [lhs |-> 2, rhs |-> Infinity, ind |-> <<>>, val |-> <<>>]}}
    /\ sdpisolver = SCIPsdpiSolverCreate
    /\ usedsdpitime = SDPIclockCreate
    /\ pc = "idle"
    /\ loc = IdleLoc
    /\ nmutations = 0
    /\ nsolves = 0

SpecEmptyRows == InitEmptyRows /\ [][NextPrep]_vars

\* C32: a row none of whose variables is free in the original bounds (among
\* them a row without coefficients) that has its left-hand side less the
\* fixed part above feastol, or its right-hand side less the fixed part
\* below -feastol, makes the solve call end as infeasible; and when no row
\* of the problem has a free variable, the call ends as infeasible in the
\* preprocessing only if there is such a row.
C32_EmptyRowInfeasibleIffBeyondFeastol ==
    [][nsolves' # nsolves =>
         LET s1 == copyBounds(solveReset(sdpi), 0)
             noFree(i) == \A j \in rowEntries(s1, i) : isFixed(s1, Rd(s1.lpind, j))
             rowconst(i) == SumTo([j \in 0..(s1.lpnnonz - 1) |->
                                      IF j \in rowEntries(s1, i)
                                      THEN Rd(s1.lpval, j) * Rd(s1.sdpilb, Rd(s1.lpind, j))
                                      ELSE 0], s1.lpnnonz)
             violated(i) ==
                 \/ Rd(s1.lplhs, i) > 0 - Infinity
                       /\ Rd(s1.lplhs, i) - rowconst(i) > s1.feastol
                 \/ Rd(s1.lprhs, i) < Infinity
                       /\ Rd(s1.lprhs, i) - rowconst(i) < 0 - s1.feastol
             rows == 0..(s1.nlpcons - 1)
         IN  ~s1.infeasible =>
                /\ (\E i \in rows : noFree(i) /\ violated(i)) => loc'.exit = "infeasible"
                /\ (\A i \in rows : noFree(i)) =>
                      (loc'.exit = "infeasible" => \E i \in rows : violated(i))]_vars

\* the one-variable branch without SDP block: two variables, no block, no
\* LP row, the first with finite, half-infinite or infinite bounds and an
\* objective coefficient of either sign, the second fixed or free
InitOneVarLP ==
    /\ sdpi \in {SCIPsdpiChgObj(
                    SCIPsdpiChgBounds(
                       SCIPsdpiChgBounds(
                          SCIPsdpiLoadSDP(SCIPsdpiCreate(UNINIT), ProblemLP),
                          0, b0[1], b0[2]),
                       1, b1[1], b1[2]),
                    0, obj) :
                    b0 \in {<<0, 4>>, <<2, 4>>, <<0, Infinity>>, <<0 - Infinity, 4>>,
                            <<0 - Infinity, Infinity>>, <<2, 2>>},
                    b1 \in {<<1, 1>>, <<4, 4>>, <<0, 4>>},
                    obj \in ObjCoefs}
    /\ sdpisolver = SCIPsdpiSolverCreate
    /\ usedsdpitime = SDPIclockCreate
    /\ pc = "idle"
    /\ loc = IdleLoc
    /\ nmutations = 0
    /\ nsolves = 0

NextOneVarLP ==
    \/ NextPrep
    \/ \E obj \in ObjCoefs : ChgObj(0, obj)

SpecOneVarLP == InitOneVarLP /\ [][NextOneVarLP]_vars

\* the closed form of the one-variable branch has been taken in the step:
\* no backend call, the optimum at the working lower bound for an objective
\* coefficient >= 0 and at the working upper bound else, the objective value
\* the coefficient times the optimum plus the part of the fixed variables
closedFormTaken ==
    LET v == CHOOSE a \in activeVars(sdpi') : TRUE
        optval == IF Rd(sdpi'.obj, v) >= 0 THEN Rd(sdpi'.sdpilb, v) ELSE Rd(sdpi'.sdpiub, v)
    IN  /\ pc' = "idle"
        /\ loc'.exit = "onevar"
        /\ sdpi'.solved
        /\ sdpi'.nsdpcalls = 0
        /\ sdpi'.solvedonevarsdp = SCIP_ONEVAR_OPTIMAL
        /\ sdpi'.onevarsdpidx = v
        /\ sdpi'.onevarsdpoptval = optval
        /\ sdpi'.onevarsdpobjval =
              Rd(sdpi'.obj, v) * optval
              + SumTo([u \in 0..(sdpi'.nvars - 1) |->
                          IF isFixed(sdpi', u) THEN Rd(sdpi'.obj, u) * Rd(sdpi'.sdpilb, u)
                          ELSE 0], sdpi'.nvars)

\* C33 as stated: a solve call whose preprocessing leaves exactly one
\* variable free, without SDP block, is completed in closed form.
C33_OneVarLPClosedForm ==
    [][(/\ nsolves' # nsolves
        /\ loc'.exit \in {"onevar", "backend"}
        /\ sdpi'.nsdpblocks = 0
        /\ Cardinality(activeVars(sdpi')) = 1)
       => closedFormTaken]_vars

\* C33, amended: such a call is completed in closed form when both working
\* bounds of the free variable are finite; when one of them is infinite the
\* call goes on to the backend.
C33_OneVarLPClosedFormIfBounded ==
    [][(/\ nsolves' # nsolves
        /\ loc'.exit \in {"onevar", "backend"}
        /\ sdpi'.nsdpblocks = 0
        /\ Cardinality(activeVars(sdpi')) = 1)
       => LET v == CHOOSE a \in activeVars(sdpi') : TRUE
          IN  IF \/ SCIPsdpiIsInfinity(Rd(sdpi'.sdpilb, v))
                 \/ SCIPsdpiIsInfinity(Rd(sdpi'.sdpiub, v))
              THEN loc'.exit = "backend" /\ pc' # "idle" /\ ~sdpi'.solved
              ELSE closedFormTaken]_vars

\* a call has been completed in closed form at the upper bound of the free
\* variable, the other variable fixed at a value other than 0
C33_Witness ==
    /\ pc = "idle"
    /\ loc.exit = "onevar"
    /\ sdpi.nsdpblocks = 0
    /\ sdpi.solved
    /\ sdpi.solvedonevarsdp = SCIP_ONEVAR_OPTIMAL
    /\ sdpi.onevarsdpidx = 0
    /\ Rd(sdpi.obj, 0) < 0
    /\ sdpi.onevarsdpoptval = Rd(sdpi.sdpiub, 0)
    /\ sdpi.onevarsdpobjval = 0 - Rd(sdpi.sdpiub, 0) - Rd(sdpi.sdpilb, 1)
    /\ Rd(sdpi.sdpilb, 1) # 0

\* known is what SCIPsdpiSolverFeasibilityKnown returns
SCIPsdpiFeasibilityKnown(s, known) ==
    IF ~s.solved THEN FALSE
    ELSE IF s.infeasible \/ s.allfixed \/ s.onevarsdpobjval > SCIP_ONEVAR_UNSOLVED THEN TRUE
    ELSE known

\* C34: for a problem solved by the backend (solved, not infeasible, not
\* all-fixed, not solved by the one-variable branch) SCIPsdpiFeasibilityKnown
\* returns what SCIPsdpiSolverFeasibilityKnown returns.
C34_FeasibilityKnownAsksBackend ==
    (/\ pc = "idle"
     /\ sdpi.solved
     /\ ~sdpi.infeasible
     /\ ~sdpi.allfixed
     /\ sdpi.solvedonevarsdp = SCIP_ONEVAR_UNSOLVED)
    => \A known \in BOOLEAN : SCIPsdpiFeasibilityKnown(sdpi, known) = known

\* lhss is the caller's array; its cells from lastrow - firstrow + 1 on stand
\* for the memory behind the lastrow - firstrow + 1 cells the caller allocated
SCIPsdpiGetLhSides(s, firstrow, lastrow, lhss) ==
    [k \in DOMAIN lhss |->
        IF firstrow <= k /\ k < firstrow + (lastrow - firstrow + 1)
        THEN Rd(s.lplhs, k - firstrow) ELSE lhss[k]]

SCIPsdpiGetRhSides(s, firstrow, lastrow, rhss) ==
    [k \in DOMAIN rhss |->
        IF firstrow <= k /\ k < firstrow + (lastrow - firstrow + 1)
        THEN Rd(s.lprhs, k - firstrow) ELSE rhss[k]]

\* C35: SCIPsdpiGetLhSides and SCIPsdpiGetRhSides called with (firstrow,
\* lastrow) store the side of row firstrow + i in cell i of the caller's
\* array for i = 0..lastrow-firstrow and write no other cell.
C35_GetSidesIndexFromZero ==
    \A firstrow \in 0..(sdpi.nlpcons - 1), lastrow \in 0..(sdpi.nlpcons - 1) :
       firstrow <= lastrow =>
          LET out == [k \in 0..(2 * sdpi.nlpcons - 1) |-> UNINIT]
              expected(side) ==
                  [k \in DOMAIN out |->
                      IF k <= lastrow - firstrow THEN Rd(side, firstrow + k) ELSE UNINIT]
          IN  /\ SCIPsdpiGetLhSides(sdpi, firstrow, lastrow, out) = expected(sdpi.lplhs)
              /\ SCIPsdpiGetRhSides(sdpi, firstrow, lastrow, out) = expected(sdpi.lprhs)

\* C36: when a call of SCIPsdpiSolve returns and no Slater check ran in it
\* (slatercheck is 0 and the call was not made with enforceslatercheck),
\* SCIPsdpiSlater reports NOINFO for both verdicts, whatever an earlier solve
\* of the same interface had found.
C36_SlaterVerdictsOfThisSolveOnly ==
    [][(/\ SolveReturns
        /\ loc'.retcode = "SCIP_OKAY"
        /\ sdpi.slatercheck = 0
        /\ pc # "idle" => ~loc.enforceslatercheck)
          => SCIPsdpiSlater(sdpi').val
                = <<"SCIP_SDPSLATER_NOINFO", "SCIP_SDPSLATER_NOINFO">>]_vars

\* C37: a call of SCIPsdpiSolve with timelimit <= 0 does no preprocessing
\* (the working bounds and the working LP rows are the ones it found) and
\* makes no backend call, returns SCIP_OKAY with solved, infeasible,
\* allfixed and penalty all false, and the clock is stopped when it returns.
C37_TimelimitExitDoesNothing ==
    [][(nsolves' # nsolves /\ loc'.exit = "timelimit")
       => /\ pc' = "idle"
          /\ loc'.retcode = "SCIP_OKAY"
          /\ sdpisolver' = sdpisolver
          /\ sdpi'.sdpilb = sdpi.sdpilb
          /\ sdpi'.sdpiub = sdpi.sdpiub
          /\ sdpi'.nactivelpcons = sdpi.nactivelpcons
          /\ sdpi'.nsdpcalls = 0
          /\ ~sdpi'.solved
          /\ ~sdpi'.infeasible
          /\ ~sdpi'.allfixed
          /\ ~sdpi'.penalty
          /\ usedsdpitime'.nruns = 0]_vars

\* C38: when a call of SCIPsdpiSolve with positive time limit gets through
\* its preprocessing without infeasibility, allfixed is TRUE exactly if
\* every variable has sdpiub - sdpilb <= epsilon; and if allfixed is TRUE
\* the call has returned without a backend call and solved is TRUE.
C38_AllFixedIffEveryVariableFixed ==
    [][(nsolves' # nsolves /\ loc'.exit \in {"allfixed", "onevar", "backend"})
       => /\ sdpi'.allfixed
               <=> \A v \in 0..(sdpi'.nvars - 1) :
                      Rd(sdpi'.sdpiub, v) - Rd(sdpi'.sdpilb, v) <= sdpi'.epsilon
          /\ sdpi'.allfixed
               => /\ pc' = "idle"
                  /\ loc'.ncalls = 0
                  /\ sdpisolver' = sdpisolver
                  /\ sdpi'.nsdpcalls = 0
                  /\ sdpi'.solved]_vars

\* a call has returned with allfixed set for a problem in which the bounds
\* of some variable were apart before the preprocessing
C38_Witness ==
    /\ pc = "idle"
    /\ loc.exit = "allfixed"
    /\ sdpi.allfixed
    /\ sdpi.solved
    /\ \E v \in 0..(sdpi.nvars - 1) : Rd(sdpi.ub, v) - Rd(sdpi.lb, v) > sdpi.epsilon

C40_AddLPRowsKeepsRowsApart ==
    [][\A r \in RowSets :
          (AddLPRows(r) /\ sdpi.nlpcons > 0 /\ r.nrows > 0)
            => LET coefs(s, i) ==
                       {<<j - Rd(s.lpbeg, i), Rd(s.lpind, j), Rd(s.lpval, j)>> :
                            j \in rowEntries(s, i)}
                   passed(k) ==
                       {<<j - Rd(r.beg, k), Rd(r.ind, j), Rd(r.val, j)>> :
                            j \in Rd(r.beg, k)..((IF k = r.nrows - 1 THEN r.nnonz
                                                   ELSE Rd(r.beg, k + 1)) - 1)}
               IN  /\ sdpi'.nlpcons = sdpi.nlpcons + r.nrows
                   /\ \A i \in 0..(sdpi.nlpcons - 1) :
                         /\ Rd(sdpi'.lplhs, i) = Rd(sdpi.lplhs, i)
                         /\ Rd(sdpi'.lprhs, i) = Rd(sdpi.lprhs, i)
                         /\ coefs(sdpi', i) = coefs(sdpi, i)
                   /\ \A k \in 0..(r.nrows - 1) :
                         /\ Rd(sdpi'.lplhs, sdpi.nlpcons + k) = Rd(r.lhs, k)
                         /\ Rd(sdpi'.lprhs, sdpi.nlpcons + k) = Rd(r.rhs, k)
                         /\ coefs(sdpi', sdpi.nlpcons + k) = passed(k)]_vars

====
